---- MODULE Spec2Model ----
(***************************************************************************)
(* Model of the pattern-detection engine of chan_logic.py.                 *)
(*                                                                         *)
(* The detectors are pure functions of a bar series (a pandas DataFrame).  *)
(* The state is the caller-owned series `df`, the last detector call       *)
(* `call` (function name and arguments) and the value it returned `ret`.   *)
(* Each specification draws `df` from a bounded family of series in its    *)
(* Init and has one action per detector call.  `kline` is the table of the *)
(* K-line store of kline_db.py, a set of rows; only the store functions    *)
(* read or write it.                                                       *)
(*                                                                         *)
(* Prices and oscillator values are floats in the source; the model uses   *)
(* integers in tenths (9.5 is 95), which keeps every comparison exact.     *)
(* Positions inside a result are the 0-based positions of the source.      *)
(* Chinese dictionary keys and reason strings are given ASCII names; the   *)
(* comment at each definition gives the source text.                       *)
(***************************************************************************)
EXTENDS Integers, Sequences, FiniteSets, TLC

VARIABLES df, call, ret, kline

vars == <<df, call, ret, kline>>

(***************************************************************************)
(* Bounds of the model.                                                    *)
(***************************************************************************)
\* longest enumerated series of the consolidation-range family
MaxLenZS == 6

\* most bars that vary at the end of a series of the breakout-pullback family
MaxFreeTB == 3

\* bars of the fixed consolidation that precedes them
PadLenTB == 28

\* longest enumerated series of the extrema family
MaxLenEX == 5

\* most bars of a series of the divergence family that differ from its base bar
MaxEditsDV == 2

\* most free bars after the flat prefix of a series of the moving-average family
MaxFreeMA == 8

\* most rows of a frame that is saved to the K-line store
MaxRowsDB == 2

(***************************************************************************)
(* Python / pandas / numpy primitives.                                     *)
(***************************************************************************)
\* Python None; a tuple result (zd, zg) is <<zd, zg>>, so both are tuples
None == <<>>

Max2(a, b) == IF a >= b THEN a ELSE b

Min2(a, b) == IF a <= b THEN a ELSE b

\* Series.max() of a non-empty column
SeqMax(s) == CHOOSE x \in {s[i] : i \in 1..Len(s)} : \A j \in 1..Len(s) : s[j] <= x

\* Series.min() / np.min of a non-empty column
SeqMin(s) == CHOOSE x \in {s[i] : i \in 1..Len(s)} : \A j \in 1..Len(s) : x <= s[j]

\* df["name"].values for each column used by the detectors
ColHigh(d) == [i \in 1..Len(d) |-> d[i].high]

ColLow(d) == [i \in 1..Len(d) |-> d[i].low]

ColClose(d) == [i \in 1..Len(d) |-> d[i].close]

\* a Python slice bound: negative counts from the end, then clamps to [0, n]
SliceBound(k, n) == IF k < 0 THEN Max2(n + k, 0) ELSE Min2(k, n)

\* s[a:b] (df.iloc[a:b]) on 0-based bounds
Iloc(s, a, b) == SubSeq(s, SliceBound(a, Len(s)) + 1, SliceBound(b, Len(s)))

\* s[a:] (df.iloc[a:])
IlocFrom(s, a) == SubSeq(s, SliceBound(a, Len(s)) + 1, Len(s))

\* DataFrame.tail(n): the last n rows; n = 0 gives no rows; n < 0 drops the first -n
Tail_(s, n) == IF n = 0 THEN <<>> ELSE IlocFrom(s, 0 - n)

(***************************************************************************)
(* find_zhongshu_simple (chan_logic.py 11-38)                              *)
(***************************************************************************)
\* mutant of zs_overlap: a touching pair of bounds is accepted as a range
zs_overlap_lt(zd, zg) == IF zg < zd THEN None ELSE <<zd, zg>>

\* lines 36-38: no range unless the three segments overlap strictly
zs_overlap(zd, zg) == IF zg <= zd THEN None ELSE <<zd, zg>>

\* mutant of zs_window: the truncation to the lookback window is skipped
zs_window_all(d, lookback) == d

\* line 22: only the most recent `lookback` bars are looked at
zs_window(d, lookback) == Tail_(d, lookback)

find_zhongshu_simple(d, segment_bars, lookback) ==
    IF Len(d) < segment_bars * 3 THEN None
    ELSE LET w == zs_window(d, lookback)
             n == Len(w)
         IN IF n < segment_bars * 3 THEN None
            ELSE LET s1 == Iloc(w, 0 - segment_bars * 3, 0 - segment_bars * 2)
                     s2 == Iloc(w, 0 - segment_bars * 2, 0 - segment_bars)
                     s3 == IlocFrom(w, 0 - segment_bars)
                     h1 == SeqMax(ColHigh(s1))
                     l1 == SeqMin(ColLow(s1))
                     h2 == SeqMax(ColHigh(s2))
                     l2 == SeqMin(ColLow(s2))
                     h3 == SeqMax(ColHigh(s3))
                     l3 == SeqMin(ColLow(s3))
                     zg == Min2(Min2(h1, h2), h3)
                     zd == Max2(Max2(l1, l2), l3)
                 IN zs_overlap(zd, zg)

(***************************************************************************)
(* Reason strings.  A reason is a record: `text` names the source string   *)
(* and `vals` holds the numbers formatted into it.                         *)
(***************************************************************************)
\* f"{x:.Nf}" of a value in tenths: sign, integer digits, N fractional digits
Fmt(x, N) == LET a == IF x < 0 THEN 0 - x ELSE x
             IN [neg |-> x < 0, int |-> a \div 10, frac |-> (a % 10) * (10 ^ (N - 1))]

Reason(text) == [text |-> text, vals |-> <<>>]

Reason1(text, a) == [text |-> text, vals |-> <<a>>]

Reason2(text, a, b) == [text |-> text, vals |-> <<a, b>>]

Reason3(text, a, b, c) == [text |-> text, vals |-> <<a, b, c>>]

(***************************************************************************)
(* is_third_buy_simple (chan_logic.py 41-82)                               *)
(***************************************************************************)
\* mutant of break_scan: the scan runs oldest-first and stops at the first hit
break_scan_first(close, zg) ==
    LET hits == {i \in 0..(Len(close) - 1) : close[i + 1] > zg}
    IN IF hits = {} THEN 0 - 1
       ELSE CHOOSE i \in hits : \A j \in hits : i <= j

\* lines 62-68 and 126-132: for i in range(n - 1, -1, -1) stops at the most
\* recent position whose close is above zg; -1 when there is none
break_scan(close, zg) ==
    LET hits == {i \in 0..(Len(close) - 1) : close[i + 1] > zg}
    IN IF hits = {} THEN 0 - 1
       ELSE CHOOSE i \in hits : \A j \in hits : j <= i

\* mutant of close_clears: the margin is subtracted instead of added
close_clears_minus(c, zg, min_close_above_zg) == ~(c < zg - min_close_above_zg)

\* line 80: the last close must not be below zg + min_close_above_zg
close_clears(c, zg, min_close_above_zg) == ~(c < zg + min_close_above_zg)

is_third_buy_simple(d, zd, zg, break_bars, pullback_bars, min_close_above_zg) ==
    IF Len(d) < break_bars + pullback_bars THEN FALSE
    ELSE LET w == Tail_(d, break_bars + pullback_bars + 5)
             close == ColClose(w)
             low == ColLow(w)
             n == Len(close)
             break_idx == break_scan(close, zg)
         IN IF break_idx < 0 THEN FALSE
            ELSE LET after_lows == IlocFrom(low, break_idx + 1)
                 IN IF Len(after_lows) = 0 THEN FALSE
                    ELSE IF SeqMin(after_lows) <= zg THEN FALSE
                    ELSE IF ~close_clears(close[n], zg, min_close_above_zg) THEN FALSE
                    ELSE TRUE

(***************************************************************************)
(* _is_third_buy_with_reasons (chan_logic.py 110-145)                      *)
(* keys: broke_zg = 曾突破ZG, pullback_above_zg = 回抽不破ZG,                *)
(*       close_on_zg = 当前收盘在ZG上, reasons = 原因                        *)
(* reasons: "too_few_bars" = K线数量不足,                                   *)
(*   "no_close_above_zg" = 近期无收盘价突破中枢上沿ZG,                       *)
(*   "pullback_low_le_zg" = 突破后回抽最低价{min_after:.4f}<=ZG{zg:.4f},     *)
(*   "close_below_zg" = 当前收盘{close[-1]:.4f}<ZG{zg:.4f}                  *)
(***************************************************************************)
\* mutant of tb_reasons: the final-close reason is reported before the pullback one
tb_reasons_swapped(pullback_ok, close_ok, min_after, last_close, zg) ==
    (IF close_ok THEN <<>>
     ELSE <<Reason2("close_below_zg", Fmt(last_close, 4), Fmt(zg, 4))>>)
    \o
    (IF pullback_ok THEN <<>>
     ELSE <<Reason2("pullback_low_le_zg", Fmt(min_after, 4), Fmt(zg, 4))>>)

\* lines 140-144: the reasons appended after a breakout was found, in order
tb_reasons(pullback_ok, close_ok, min_after, last_close, zg) ==
    (IF pullback_ok THEN <<>>
     ELSE <<Reason2("pullback_low_le_zg", Fmt(min_after, 4), Fmt(zg, 4))>>)
    \o
    (IF close_ok THEN <<>>
     ELSE <<Reason2("close_below_zg", Fmt(last_close, 4), Fmt(zg, 4))>>)

is_third_buy_with_reasons(d, zd, zg, break_bars, pullback_bars) ==
    LET out == [broke_zg |-> FALSE, pullback_above_zg |-> FALSE,
                close_on_zg |-> FALSE, reasons |-> <<>>]
    IN IF Len(d) < break_bars + pullback_bars + 2
       THEN [out EXCEPT !.reasons = <<Reason("too_few_bars")>>]
       ELSE LET w == Tail_(d, break_bars + pullback_bars + 5)
                close == ColClose(w)
                low == ColLow(w)
                n == Len(close)
                break_idx == break_scan(close, zg)
                broken == break_idx >= 0
            IN IF ~broken
               THEN [out EXCEPT !.reasons = <<Reason("no_close_above_zg")>>]
               ELSE LET after_lows == IlocFrom(low, break_idx + 1)
                        min_after == IF Len(after_lows) > 0 THEN SeqMin(after_lows) ELSE zg
                        pullback_ok == min_after > zg
                        close_ok == close[n] >= zg
                    IN [broke_zg |-> broken,
                        pullback_above_zg |-> pullback_ok,
                        close_on_zg |-> close_ok,
                        reasons |-> tb_reasons(pullback_ok, close_ok, min_after, close[n], zg)]

(***************************************************************************)
(* check_third_buy_detail (chan_logic.py 148-188)                          *)
(* keys: zs_exists = 中枢存在, conclusion = 结论; reasons:                   *)
(*   "fewer_than_30_bars" = K线不足30根,                                    *)
(*   "no_valid_zhongshu" = 未识别到有效中枢(三段无重叠)                      *)
(***************************************************************************)
\* mutant of tb_conclusion: the final-close flag is left out of the conclusion
tb_conclusion_two(broke, pullback_ok, close_ok) == broke /\ pullback_ok

\* mutant of tb_conclusion: the pullback flag is left out of the conclusion
tb_conclusion_no_pullback(broke, pullback_ok, close_ok) == broke /\ close_ok

\* line 185: the conclusion is the conjunction of the three flags
tb_conclusion(broke, pullback_ok, close_ok) == broke /\ pullback_ok /\ close_ok

check_third_buy_detail(d, segment_bars, lookback, break_bars, pullback_bars) ==
    LET detail == [zs_exists |-> FALSE, ZD |-> None, ZG |-> None,
                   broke_zg |-> FALSE, pullback_above_zg |-> FALSE,
                   close_on_zg |-> FALSE, conclusion |-> FALSE, reasons |-> <<>>]
    IN IF Len(d) < 30
       THEN [detail EXCEPT !.reasons = <<Reason("fewer_than_30_bars")>>]
       ELSE LET zs == find_zhongshu_simple(d, segment_bars, lookback)
            IN IF zs = None
               THEN [detail EXCEPT !.reasons = <<Reason("no_valid_zhongshu")>>]
               ELSE LET zd == zs[1]
                        zg == zs[2]
                        sub == is_third_buy_with_reasons(d, zd, zg, break_bars, pullback_bars)
                        conclusion == tb_conclusion(sub.broke_zg, sub.pullback_above_zg,
                                                    sub.close_on_zg)
                    \* round(zd, 4) keeps a value in tenths; a present bound is <<bound>>
                    IN [zs_exists |-> TRUE, ZD |-> <<zd>>, ZG |-> <<zg>>,
                        broke_zg |-> sub.broke_zg,
                        pullback_above_zg |-> sub.pullback_above_zg,
                        close_on_zg |-> sub.close_on_zg,
                        conclusion |-> conclusion,
                        reasons |-> IF conclusion THEN <<>> ELSE sub.reasons]

(***************************************************************************)
(* check_third_buy_at_today (chan_logic.py 85-107) and the level filters   *)
(* filter_levels_third_buy (191-214) and                                   *)
(* filter_levels_third_buy_with_detail (217-240).  kline_by_level is a     *)
(* function from level names to frames; a frame that is None and a level   *)
(* that is not a key both read as None (dict.get).  An entry of the        *)
(* detail filter is the tuple <<level, detail, passed>>.                   *)
(* reason: "no_data_or_too_few_bars" = 无数据或K线不足(len={n})              *)
(***************************************************************************)
check_third_buy_at_today(d, segment_bars, lookback, break_bars, pullback_bars) ==
    LET zs == find_zhongshu_simple(d, segment_bars, lookback)
    IN IF zs = None THEN FALSE
       ELSE is_third_buy_simple(d, zs[1], zs[2], break_bars, pullback_bars, 0)

\* kline_by_level.get(level)
level_frame(kline_by_level, level) ==
    IF level \in DOMAIN kline_by_level THEN kline_by_level[level] ELSE None

\* lines 203 and 231
level_lookback(level, d) == IF level = "daily" THEN 30 ELSE Min2(60, Len(d) - 5)

\* lines 204 and 232
level_segment_bars(level) == IF level = "daily" THEN 6 ELSE 5

\* lines 201-213: the levels that one requested level adds to the result
hit_levels_of(kline_by_level, level) ==
    LET d == level_frame(kline_by_level, level)
    IN IF d = None \/ Len(d) < 30 THEN <<>>
       ELSE IF check_third_buy_at_today(d, level_segment_bars(level), level_lookback(level, d),
                                        5, 10)
            THEN <<level>> ELSE <<>>

RECURSIVE filter_levels_third_buy(_, _)
filter_levels_third_buy(kline_by_level, levels) ==
    IF levels = <<>> THEN <<>>
    ELSE hit_levels_of(kline_by_level, Head(levels))
         \o filter_levels_third_buy(kline_by_level, Tail(levels))

\* mutant of detail_entries_of: a level without enough bars is skipped, as
\* the boolean filter does
detail_entries_skip_short(kline_by_level, level) ==
    LET d == level_frame(kline_by_level, level)
    IN IF d = None \/ Len(d) < 30 THEN <<>>
       ELSE LET detail == check_third_buy_detail(d, level_segment_bars(level),
                                                 level_lookback(level, d), 5, 10)
            IN << <<level, detail, detail.conclusion>> >>

\* lines 227-239: the entries that one requested level adds to the output
detail_entries_of(kline_by_level, level) ==
    LET d == level_frame(kline_by_level, level)
    IN IF d = None \/ Len(d) < 30
       THEN << <<level,
                 [reasons |-> <<Reason1("no_data_or_too_few_bars",
                                        IF d = None THEN 0 ELSE Len(d))>>],
                 FALSE>> >>
       ELSE LET detail == check_third_buy_detail(d, level_segment_bars(level),
                                                 level_lookback(level, d), 5, 10)
            IN << <<level, detail, detail.conclusion>> >>

RECURSIVE filter_levels_third_buy_with_detail(_, _)
filter_levels_third_buy_with_detail(kline_by_level, levels) ==
    IF levels = <<>> THEN <<>>
    ELSE detail_entries_of(kline_by_level, Head(levels))
         \o filter_levels_third_buy_with_detail(kline_by_level, Tail(levels))

(***************************************************************************)
(* Local extrema: find_recent_lows (chan_logic.py 245-260) and             *)
(* find_all_local_extrema (459-490).  A window w is 1-based here; the      *)
(* source position i is w[i + 1].                                          *)
(***************************************************************************)
\* df.columns holds the column; every row of a frame has the same columns
HasCol(d, c) == Len(d) > 0 /\ c \in DOMAIN d[1]

\* an exception propagating out of a call
Raise(e) == [exc |-> e]

\* mutant of is_local_low: a low equal to the next bar's low is accepted
is_local_low_weak(w, i) == w[i + 1].low < w[i].low /\ w[i + 1].low <= w[i + 2].low

\* lines 255, 480, 747, 936: strictly below both neighbours
is_local_low(w, i) == w[i + 1].low < w[i].low /\ w[i + 1].low < w[i + 2].low

\* line 470: strictly above both neighbours
is_local_high(w, i) == w[i + 1].high > w[i].high /\ w[i + 1].high > w[i + 2].high

\* the local lows among the positions i, i + 1, .. of range(1, len(w) - 1)
RECURSIVE LowPositionsFrom(_, _)
LowPositionsFrom(w, i) ==
    IF i > Len(w) - 2 THEN <<>>
    ELSE (IF is_local_low(w, i) THEN <<i>> ELSE <<>>) \o LowPositionsFrom(w, i + 1)

RECURSIVE HighPositionsFrom(_, _)
HighPositionsFrom(w, i) ==
    IF i > Len(w) - 2 THEN <<>>
    ELSE (IF is_local_high(w, i) THEN <<i>> ELSE <<>>) \o HighPositionsFrom(w, i + 1)

LowPositions(w) == LowPositionsFrom(w, 1)

HighPositions(w) == HighPositionsFrom(w, 1)

\* list.sort(key=lambda x: x[1]): stable, ascending in the second component
RECURSIVE InsertByPrice(_, _)
InsertByPrice(sorted, x) ==
    IF sorted = <<>> THEN <<x>>
    ELSE IF sorted[Len(sorted)][2] <= x[2] THEN Append(sorted, x)
    ELSE Append(InsertByPrice(SubSeq(sorted, 1, Len(sorted) - 1), x), sorted[Len(sorted)])

RECURSIVE SortByPriceFrom(_, _, _)
SortByPriceFrom(s, k, acc) ==
    IF k > Len(s) THEN acc ELSE SortByPriceFrom(s, k + 1, InsertByPrice(acc, s[k]))

SortByPrice(s) == SortByPriceFrom(s, 1, <<>>)

\* mutant of lows_order: the lows are sorted by price descending
lows_order_desc(lows) ==
    LET a == SortByPrice(lows) IN [k \in 1..Len(a) |-> a[Len(a) + 1 - k]]

\* line 259: lows.sort(key=lambda x: x[1])
lows_order(lows) == SortByPrice(lows)

\* find_recent_lows: the (position, low, dif) of each local low of the last
\* `lookback` bars, ascending in price; reading a missing dif column raises
find_recent_lows(d, lookback) ==
    LET w == Tail_(d, lookback)
        pos == LowPositions(w)
    IN IF pos # <<>> /\ ~HasCol(d, "dif") THEN Raise("KeyError")
       ELSE lows_order([k \in 1..Len(pos) |-> <<pos[k], w[pos[k] + 1].low, w[pos[k] + 1].dif>>])

\* one entry of the highs / lows lists of find_all_local_extrema; `date` is
\* df.iloc[i].get('date', str(i)): str(i) when the frame has no date column
Extremum(w, i, price) ==
    [idx |-> i, price |-> price, dif |-> w[i + 1].dif, dea |-> w[i + 1].dea,
     macd |-> w[i + 1].macd,
     date |-> IF "date" \in DOMAIN w[i + 1] THEN w[i + 1].date ELSE ToString(i)]

find_all_local_extrema(d, lookback) ==
    LET w == Tail_(d, lookback)
        hp == HighPositions(w)
        lp == LowPositions(w)
    IN IF (hp # <<>> \/ lp # <<>>) /\ ~(HasCol(d, "dif") /\ HasCol(d, "dea") /\ HasCol(d, "macd"))
       THEN Raise("KeyError")
       ELSE [highs |-> [k \in 1..Len(hp) |-> Extremum(w, hp[k], w[hp[k] + 1].high)],
             lows |-> [k \in 1..Len(lp) |-> Extremum(w, lp[k], w[lp[k] + 1].low)]]

(***************************************************************************)
(* check_bottom_divergence (chan_logic.py 263-322)                         *)
(* keys: exists = 存在底背驰, price_new_low = 价格新低, dif_new_low = DIF新低,*)
(*   macd_new_low = MACD新低, prev_low_dif = 前低位置DIF (a key added on     *)
(*   success only; None stands for its absence), reasons = 原因             *)
(* reasons: "too_few_bars" = K线不足, "no_macd_data" = 无MACD数据,           *)
(*   "not_enough_lows" = 找不到足够的低点,                                   *)
(*   "dif_also_new_low" = DIF也创新低，无背驰,                               *)
(*   "price_not_new_low" = 价格未创新低                                     *)
(***************************************************************************)
\* mutant of divergence_pair: the pair is taken from the low-priced end
divergence_pair_lowest(lows) == <<lows[1], lows[2]>>

\* lines 303-304 and 372-373: (recent_low, prev_low) = (lows[-1], lows[-2])
divergence_pair(lows) == <<lows[Len(lows)], lows[Len(lows) - 1]>>

check_bottom_divergence(d, lookback) ==
    LET result == [exists |-> FALSE, price_new_low |-> None, dif_new_low |-> None,
                   macd_new_low |-> None, prev_low_dif |-> None, reasons |-> <<>>]
    IN IF Len(d) < 30 THEN [result EXCEPT !.reasons = <<Reason("too_few_bars")>>]
       ELSE IF ~HasCol(d, "dif") \/ ~HasCol(d, "dea")
       THEN [result EXCEPT !.reasons = <<Reason("no_macd_data")>>]
       ELSE LET lows == find_recent_lows(d, lookback)
            IN IF Len(lows) < 2
               THEN [result EXCEPT !.reasons = <<Reason("not_enough_lows")>>]
               ELSE LET pair == divergence_pair(lows)
                        current_price == pair[1][2]
                        current_dif == pair[1][3]
                        prev_price == pair[2][2]
                        prev_dif == pair[2][3]
                    IN IF current_price < prev_price
                       THEN IF current_dif > prev_dif
                            \* round(.., 2) and round(.., 4) keep a value in tenths
                            THEN [result EXCEPT !.exists = TRUE,
                                                !.price_new_low = <<current_price>>,
                                                !.dif_new_low = <<current_dif>>,
                                                !.prev_low_dif = <<prev_dif>>]
                            ELSE [result EXCEPT !.reasons = <<Reason("dif_also_new_low")>>]
                       ELSE [result EXCEPT !.reasons = <<Reason("price_not_new_low")>>]

(***************************************************************************)
(* Moving averages.  close.rolling(window).mean() is kept as the exact     *)
(* fraction <<sum, window>>; the first window - 1 entries are NaN, and     *)
(* every comparison with NaN is False.                                     *)
(***************************************************************************)
NaN == <<>>

RECURSIVE SumRange(_, _, _)
SumRange(s, a, b) == IF a > b THEN 0 ELSE s[a] + SumRange(s, a + 1, b)

\* entry i (1-based) of close.rolling(window=w).mean()
rolling_mean_at(close, w, i) == IF i < w THEN NaN ELSE <<SumRange(close, i - w + 1, i), w>>

FloatLE(a, b) == a # NaN /\ b # NaN /\ a[1] * b[2] <= b[1] * a[2]

FloatGT(a, b) == a # NaN /\ b # NaN /\ a[1] * b[2] > b[1] * a[2]

\* mutant of golden_cross_today: today's MA5 may equal today's MA10
golden_cross_today_weak(d) ==
    LET close == ColClose(d)
        n == Len(close)
    IN /\ n >= 2
       /\ FloatLE(rolling_mean_at(close, 5, n - 1), rolling_mean_at(close, 10, n - 1))
       /\ FloatLE(rolling_mean_at(close, 10, n), rolling_mean_at(close, 5, n))

\* lines 728-734 and 966-972: MA5 <= MA10 yesterday and MA5 > MA10 today
golden_cross_today(d) ==
    LET close == ColClose(d)
        n == Len(close)
    IN /\ n >= 2
       /\ FloatLE(rolling_mean_at(close, 5, n - 1), rolling_mean_at(close, 10, n - 1))
       /\ FloatGT(rolling_mean_at(close, 5, n), rolling_mean_at(close, 10, n))

(***************************************************************************)
(* check_ma_cross (chan_logic.py 493-540)                                  *)
(* keys: golden_cross = 金叉, death_cross = 死叉, ma1, ma2,                  *)
(*   cross_date = 金叉日期                                                  *)
(* The averages are computed on a copy of the frame (line 515); the        *)
(* caller's frame is what frame_after_check_ma_cross gives.                *)
(***************************************************************************)
\* df.iloc[i].get('date', str(i)): the date of the row at 0-based position i,
\* or the position written as a string when the frame has no date column
row_date(d, i) == IF HasCol(d, "date") THEN d[i + 1].date ELSE ToString(i)

\* mutant of ma_crossed_below: a bar with equal averages does not stop the scan
ma_crossed_below_strict(fast, slow) == fast # NaN /\ slow # NaN /\ ~FloatLE(slow, fast)

\* line 530: ma5[i] <= ma10[i], False when either average is NaN
ma_crossed_below(fast, slow) == FloatLE(fast, slow)

\* lines 529-532: the loop over i = k, k - 1, .., 0 that stops at the first
\* bar whose fast average is not above the slow one
RECURSIVE cross_date_scan(_, _, _, _)
cross_date_scan(d, ma1, ma2, k) ==
    IF k < 0 THEN None
    ELSE IF ma_crossed_below(rolling_mean_at(ColClose(d), ma1, k + 1),
                             rolling_mean_at(ColClose(d), ma2, k + 1))
         THEN <<row_date(d, k)>>
         ELSE cross_date_scan(d, ma1, ma2, k - 1)

check_ma_cross(d, ma1, ma2) ==
    LET result == [golden_cross |-> FALSE, death_cross |-> FALSE, ma1 |-> None,
                   ma2 |-> None, cross_date |-> None]
        n == Len(d)
        fast == rolling_mean_at(ColClose(d), ma1, n)
        slow == rolling_mean_at(ColClose(d), ma2, n)
    IN IF n < ma2 + 5 THEN result
       ELSE [golden_cross |-> FloatGT(fast, slow),
             death_cross |-> FloatGT(slow, fast),
             ma1 |-> <<fast>>,
             ma2 |-> <<slow>>,
             cross_date |-> IF FloatGT(fast, slow)
                            THEN cross_date_scan(d, ma1, ma2, n - 2) ELSE None]

\* mutant of frame_after_check_ma_cross: the averages are written into the
\* caller's frame
frame_after_check_ma_cross_inplace(d, ma1, ma2) ==
    IF Len(d) < ma2 + 5 THEN d
    ELSE [i \in 1..Len(d) |->
             [c \in DOMAIN d[i] \cup {"ma5", "ma10"} |->
                 IF c = "ma5" THEN rolling_mean_at(ColClose(d), ma1, i)
                 ELSE IF c = "ma10" THEN rolling_mean_at(ColClose(d), ma2, i)
                 ELSE d[i][c]]]

\* line 515: df = df.copy() rebinds the local name, so the columns ma5 and
\* ma10 of lines 516-517 go to the copy and the caller's frame stays as it was
frame_after_check_ma_cross(d, ma1, ma2) == d

(***************************************************************************)
(* check_volume_increase (chan_logic.py 543-577)                           *)
(* keys: volume_up = 放量, volume_ratio = 量比, today_volume = 今天量,       *)
(*   volume_ma = 5日均量.  The ratio today_vol / vol_ma5 is kept as the     *)
(* exact fraction <<today_vol * days, sum of the last `days` volumes>>.    *)
(***************************************************************************)
ColVolume(d) == [i \in 1..Len(d) |-> d[i].volume]

check_volume_increase(d, days) ==
    LET result == [volume_up |-> FALSE, volume_ratio |-> <<0, 1>>, today_volume |-> 0,
                   volume_ma |-> <<0, 1>>]
        n == Len(d)
    IN IF n < days + 5 THEN result
       ELSE IF ~HasCol(d, "volume") THEN Raise("KeyError")
       ELSE LET today_vol == d[n].volume
                vol_ma5 == rolling_mean_at(ColVolume(d), days, n)
            IN IF FloatGT(vol_ma5, <<0, 1>>)
               THEN [volume_up |-> 10 * today_vol * vol_ma5[2] > 13 * vol_ma5[1],
                     volume_ratio |-> <<today_vol * vol_ma5[2], vol_ma5[1]>>,
                     today_volume |-> today_vol,
                     volume_ma |-> vol_ma5]
               ELSE [result EXCEPT !.today_volume = today_vol, !.volume_ma = vol_ma5]

\* line 564: the average column vol_ma5 goes to a copy of the frame
frame_after_check_volume_increase(d, days) == d

(***************************************************************************)
(* check_today_first_buy (chan_logic.py 696-772)                           *)
(* keys: today_first_buy = 今天一买, first_buy_price = 一买位置,             *)
(*   is_divergence = 是否底背驰, ma_cross = 均线金叉, reasons = 原因         *)
(* reasons: "too_few_bars" = K线不足,                                       *)
(*   "ma5_cross_ma10_today" = 今天MA5金叉MA10，当前价{close:.2f},            *)
(*   "divergence_today" = 今天形成底背驰，价格新低{price:.2f}，DIF背离,       *)
(*   "no_first_buy_today" = 今天未形成一买                                  *)
(***************************************************************************)
\* mutant of signal_reasons: a signal is returned without its justification
signal_reasons_none(r) == <<>>

\* lines 738, 768, 958, 978, 1027: result["原因"].append(...) on a signal
signal_reasons(r) == <<r>>

\* mutant of low_is_recent: the position is counted back from the newest bar
low_is_recent_from_end(low_idx, n) == low_idx >= n - 3

\* line 758: if low_idx <= 2, on the position inside the 10-bar window
low_is_recent(low_idx, n) == low_idx <= 2

check_today_first_buy(d, lookback) ==
    LET result == [today_first_buy |-> FALSE, first_buy_price |-> None,
                   is_divergence |-> FALSE, ma_cross |-> FALSE, reasons |-> <<>>]
        last_close == d[Len(d)].close
        no_signal == [result EXCEPT !.reasons = <<Reason("no_first_buy_today")>>]
    IN IF Len(d) < 20 THEN [result EXCEPT !.reasons = <<Reason("too_few_bars")>>]
       ELSE IF golden_cross_today(d)
       THEN [result EXCEPT !.ma_cross = TRUE,
                           !.today_first_buy = TRUE,
                           !.first_buy_price = <<last_close>>,
                           !.reasons = signal_reasons(Reason1("ma5_cross_ma10_today",
                                                              Fmt(last_close, 2)))]
       ELSE LET recent_df == Tail_(d, 10)
                pos == LowPositions(recent_df)
            IN IF pos # <<>> /\ ~HasCol(d, "dif") THEN Raise("KeyError")
               ELSE IF Len(pos) < 2 THEN no_signal
               ELSE LET lows == SortByPrice([k \in 1..Len(pos) |->
                                    <<pos[k], recent_df[pos[k] + 1].low, recent_df[pos[k] + 1].dif>>])
                        recent_low == lows[1]
                        prev_low == lows[2]
                    IN IF /\ low_is_recent(recent_low[1], Len(recent_df))
                          /\ recent_low[2] < prev_low[2]
                          /\ recent_low[3] > prev_low[3]
                       THEN [result EXCEPT !.today_first_buy = TRUE,
                                           !.first_buy_price = <<recent_low[2]>>,
                                           !.is_divergence = TRUE,
                                           !.reasons = signal_reasons(Reason1("divergence_today",
                                                                   Fmt(recent_low[2], 2)))]
                       ELSE no_signal

(***************************************************************************)
(* check_today_second_buy (chan_logic.py 916-982)                          *)
(* keys: today_second_buy = 今天二买, first_buy_price = 一买位置,            *)
(*   second_buy_price = 二买位置, reasons = 原因                            *)
(* reasons: "too_few_bars" = K线不足, "not_enough_lows" = 找不到足够低点,    *)
(*   "pullback_near_first_buy" = 今天回抽到一买位置{:.2f}附近，当前价{:.2f}, *)
(*   "ma_cross_above_first_buy" = 今天MA金叉且价格高于一买，一买{:.2f}，当前{:.2f}, *)
(*   "no_second_buy_today" = 今天未形成二买                                 *)
(***************************************************************************)
\* line 949-951: abs(current - one_buy) <= one_buy * 0.05, in exact arithmetic
within_pullback_range(current_price, one_buy_price) ==
    LET diff == IF current_price >= one_buy_price THEN current_price - one_buy_price
                ELSE one_buy_price - current_price
    IN 20 * diff <= one_buy_price

check_today_second_buy(d, lookback) ==
    LET result == [today_second_buy |-> FALSE, first_buy_price |-> None,
                   second_buy_price |-> None, reasons |-> <<>>]
    IN IF Len(d) < 20 THEN [result EXCEPT !.reasons = <<Reason("too_few_bars")>>]
       ELSE LET pos == LowPositions(d)
            IN IF Len(pos) < 2 THEN [result EXCEPT !.reasons = <<Reason("not_enough_lows")>>]
               ELSE LET lows == SortByPrice([k \in 1..Len(pos) |->
                                    <<pos[k], d[pos[k] + 1].low, "">>])
                        one_buy_price == lows[1][2]
                        current_price == d[Len(d)].close
                        signal(text) ==
                            [result EXCEPT !.today_second_buy = TRUE,
                                           !.first_buy_price = <<one_buy_price>>,
                                           !.second_buy_price = <<current_price>>,
                                           !.reasons = signal_reasons(Reason2(text,
                                                    Fmt(one_buy_price, 2), Fmt(current_price, 2)))]
                    IN IF /\ within_pullback_range(current_price, one_buy_price)
                          /\ current_price > one_buy_price
                       THEN signal("pullback_near_first_buy")
                       ELSE IF golden_cross_today(d) /\ current_price > one_buy_price
                       THEN signal("ma_cross_above_first_buy")
                       ELSE [result EXCEPT !.reasons = <<Reason("no_second_buy_today")>>]

(***************************************************************************)
(* check_today_third_buy (chan_logic.py 985-1036)                          *)
(* keys: today_third_buy = 今天三买, ZG = 中枢ZG, ZD = 中枢ZD,               *)
(*   current_price = 当前价格, reasons = 原因                               *)
(* reasons: "too_few_bars" = K线不足, "no_valid_zhongshu" = 未找到有效中枢,  *)
(*   "close_and_low_above_zg" = 今天收盘价{:.2f}>ZG{:.2f}，最低价{:.2f}>ZG，未跌破, *)
(*   "no_breakout_in_5_days" = 最近5天无突破ZG,                             *)
(*   "close_not_above_zg" = 当前收盘{:.2f}未突破ZG{:.2f},                    *)
(*   "low_broke_zg" = 当前最低{:.2f}跌破了ZG{:.2f}                          *)
(***************************************************************************)
\* mutant of today_above_zg: the low of the last bar is not looked at
today_above_zg_close_only(current_price, current_low, zg) == current_price > zg

\* line 1021: if current_price > zg and current_low > zg
today_above_zg(current_price, current_low, zg) == current_price > zg /\ current_low > zg

\* mutant of recent_breakout: the 5 bars before the last one are examined
recent_breakout_before_today(d, zg) ==
    LET recent_close == ColClose(Iloc(d, 0 - 6, 0 - 1))
    IN \E k \in 1..Len(recent_close) : recent_close[k] > zg

\* lines 1024-1025: some close of df['close'].tail(5) is above zg
recent_breakout(d, zg) ==
    LET recent_close == ColClose(Tail_(d, 5))
    IN \E k \in 1..Len(recent_close) : recent_close[k] > zg

check_today_third_buy(d, lookback) ==
    LET result == [today_third_buy |-> FALSE, ZG |-> None, ZD |-> None,
                   current_price |-> None, reasons |-> <<>>]
    IN IF Len(d) < 30 THEN [result EXCEPT !.reasons = <<Reason("too_few_bars")>>]
       ELSE LET zs == find_zhongshu_simple(d, 6, Min2(lookback, Len(d) - 10))
            IN IF zs = None THEN [result EXCEPT !.reasons = <<Reason("no_valid_zhongshu")>>]
               ELSE LET zd == zs[1]
                        zg == zs[2]
                        current_price == d[Len(d)].close
                        current_low == d[Len(d)].low
                        found == [result EXCEPT !.ZD = <<zd>>, !.ZG = <<zg>>,
                                                !.current_price = <<current_price>>]
                    IN IF today_above_zg(current_price, current_low, zg)
                       THEN IF recent_breakout(d, zg)
                            THEN [found EXCEPT !.today_third_buy = TRUE,
                                               !.reasons = signal_reasons(Reason3("close_and_low_above_zg",
                                                     Fmt(current_price, 2), Fmt(zg, 2),
                                                     Fmt(current_low, 2)))]
                            ELSE [found EXCEPT !.reasons = <<Reason("no_breakout_in_5_days")>>]
                       ELSE [found EXCEPT !.reasons =
                                (IF current_price <= zg
                                 THEN <<Reason2("close_not_above_zg", Fmt(current_price, 2),
                                                Fmt(zg, 2))>>
                                 ELSE <<>>)
                                \o
                                (IF current_low <= zg
                                 THEN <<Reason2("low_broke_zg", Fmt(current_low, 2), Fmt(zg, 2))>>
                                 ELSE <<>>)]

(***************************************************************************)
(* calculate_divergence_strength (chan_logic.py 330-454)                   *)
(* keys: has_divergence = 有底背驰, score = 力度评分,                        *)
(*   price_score = 价格跌幅得分, div_score = 背离得分,                       *)
(*   macd_score = MACD状态得分, probability = 预估上涨概率,                  *)
(*   strength = 预估上涨力度, reasons = 原因                                *)
(* reasons: "too_few_bars" = 数据不足, "no_macd_data" = 无MACD数据,          *)
(*   "not_enough_lows" = 找不到足够的局部低点, "no_divergence" = 无底背驰    *)
(* labels: "very_high" = 极高 (>90%), "high" = 高 (70-90%),                 *)
(*   "medium" = 中 (50-70%) / 中等, "low" = 低 (<50%),                      *)
(*   "strong" = 强劲, "weak" = 较弱                                         *)
(* Percentages are exact fractions; int() truncates toward zero.           *)
(***************************************************************************)
\* int(num / den) for den # 0
IntTrunc(num, den) ==
    LET n == IF den < 0 THEN 0 - num ELSE num
        m == IF den < 0 THEN 0 - den ELSE den
    IN IF n >= 0 THEN n \div m ELSE 0 - ((0 - n) \div m)

Abs(x) == IF x < 0 THEN 0 - x ELSE x

\* lines 436-444
probability_band(score) ==
    IF score >= 80 THEN "very_high"
    ELSE IF score >= 60 THEN "high"
    ELSE IF score >= 40 THEN "medium"
    ELSE "low"

\* lines 447-452
strength_label(score) ==
    IF score >= 70 THEN "strong"
    ELSE IF score >= 50 THEN "medium"
    ELSE "weak"

\* lines 419-429: state of the oscillator at the most recent bar
macd_state_score(current_dif_val, current_dea, current_macd_val) ==
    IF current_dea < 0 /\ current_dif_val > current_dea THEN 30
    ELSE IF current_dif_val > current_dea /\ current_macd_val > 0 THEN 20
    ELSE IF current_macd_val > 0 THEN 15
    ELSE 5

\* lines 396-397 and 404-405: min(40, int(pct * 2)) with pct = 0 on a zero base
magnitude_score(current, prev) ==
    IF prev # 0 THEN Min2(40, IntTrunc((current - prev) * 200, Abs(prev))) ELSE Min2(40, 0)

\* df["macd"].values, or dif - dea when the frame has no macd column
MacdValues(d) ==
    [i \in 1..Len(d) |-> IF HasCol(d, "macd") THEN d[i].macd ELSE d[i].dif - d[i].dea]

\* mutant of initial_label: the labels start at the lowest band
initial_label_low == "low"

\* lines 349-350: the labels of the result before any score is computed
initial_label == ""

\* mutant of strength_has_divergence: a low at the price of the previous one
\* counts as a new low
strength_has_divergence_ties(current_price, prev_price, current_dif, prev_dif) ==
    current_price <= prev_price /\ current_dif > prev_dif

\* mutant of strength_has_divergence: the price comparison is reversed
strength_has_divergence_flipped(current_price, prev_price, current_dif, prev_dif) ==
    current_price > prev_price /\ current_dif > prev_dif

\* mutant of strength_has_divergence: any difference of price and of DIF
\* counts, whichever low is the lower one
strength_has_divergence_unordered(current_price, prev_price, current_dif, prev_dif) ==
    current_price # prev_price /\ current_dif # prev_dif

\* line 379
strength_has_divergence(current_price, prev_price, current_dif, prev_dif) ==
    current_price < prev_price /\ current_dif > prev_dif

\* mutant of price_drop_faults: the quotient is computed before the test of
\* line 381
price_drop_faults_unguarded(has_divergence, prev_price) == prev_price = 0

\* line 388 divides by prev_price without a zero test and line 390 takes
\* int() of the quotient; the lines are reached only when line 381 did not
\* return
price_drop_faults(has_divergence, prev_price) == has_divergence /\ prev_price = 0

calculate_divergence_strength(d) ==
    LET result == [has_divergence |-> FALSE, score |-> 0, price_score |-> 0,
                   div_score |-> 0, macd_score |-> 0, probability |-> initial_label,
                   strength |-> initial_label, reasons |-> <<>>]
    IN IF Len(d) < 30 THEN [result EXCEPT !.reasons = <<Reason("too_few_bars")>>]
       ELSE IF ~HasCol(d, "dif") \/ ~HasCol(d, "dea")
       THEN [result EXCEPT !.reasons = <<Reason("no_macd_data")>>]
       ELSE LET d30 == Tail_(d, 30)
                lows == find_recent_lows(d30, 20)
            IN IF Len(lows) < 2
               THEN [result EXCEPT !.reasons = <<Reason("not_enough_lows")>>]
               ELSE LET pair == divergence_pair(lows)
                        current_idx == pair[1][1]
                        current_price == pair[1][2]
                        current_dif == pair[1][3]
                        prev_idx == pair[2][1]
                        prev_price == pair[2][2]
                        prev_dif == pair[2][3]
                        has_divergence == strength_has_divergence(current_price, prev_price,
                                                                  current_dif, prev_dif)
                    \* a zero previous low makes the quotient of line 388 infinite
                    \* (or NaN) and int() of it raises
                    IN IF price_drop_faults(has_divergence, prev_price)
                       THEN Raise("OverflowError")
                       ELSE IF ~has_divergence
                       THEN [result EXCEPT !.reasons = <<Reason("no_divergence")>>]
                       ELSE LET price_score ==
                                    Min2(30, IntTrunc((prev_price - current_price) * 300,
                                                      prev_price))
                                macd_vals == MacdValues(d30)
                                div_score ==
                                    IF current_dif >= prev_dif
                                    THEN magnitude_score(current_dif, prev_dif)
                                    ELSE IF macd_vals[current_idx + 1] >= macd_vals[prev_idx + 1]
                                    THEN magnitude_score(macd_vals[current_idx + 1],
                                                         macd_vals[prev_idx + 1])
                                    ELSE 5
                                macd_score ==
                                    macd_state_score(d30[Len(d30)].dif, d30[Len(d30)].dea,
                                                     macd_vals[Len(d30)])
                                score == price_score + div_score + macd_score
                            IN [has_divergence |-> TRUE, score |-> score,
                                price_score |-> price_score, div_score |-> div_score,
                                macd_score |-> macd_score,
                                probability |-> probability_band(score),
                                strength |-> strength_label(score), reasons |-> <<>>]

(***************************************************************************)
(* The full-history detectors (chan_logic.py 775-913, 1062-1088) call      *)
(* check_first_buy_point, a name that no module of the repository defines  *)
(* or imports: evaluating the call raises NameError.                       *)
(* reasons: "too_few_bars" = K线不足                                        *)
(***************************************************************************)
\* lines 805, 872, 1074: the name lookup fails
check_first_buy_point(d, lookback) == Raise("NameError")

IsError(v) == "exc" \in DOMAIN v

\* lines 800-805; the exception leaves the function, lines 806-851 never run
check_second_buy_point(d, lookback) ==
    LET result == [exists |-> FALSE, first_buy_price |-> None, second_buy_price |-> None,
                   ZG |-> None, ZD |-> None, reasons |-> <<>>]
    IN IF Len(d) < 50 THEN [result EXCEPT !.reasons = <<Reason("too_few_bars")>>]
       ELSE check_first_buy_point(d, lookback)

\* lines 867-872; the exception leaves the function, lines 873-913 never run
check_third_buy_from_first_buy(d, lookback) ==
    LET result == [exists |-> FALSE, first_buy_price |-> None, ZG |-> None, ZD |-> None,
                   reasons |-> <<>>]
    IN IF Len(d) < 50 THEN [result EXCEPT !.reasons = <<Reason("too_few_bars")>>]
       ELSE check_first_buy_point(d, lookback)

\* line 1074: the first entry of the dictionary literal is evaluated first
analyze_all_buy_points(d, lookback) == check_first_buy_point(d, lookback)

(***************************************************************************)
(* analyze_today_buy_points (chan_logic.py 1039-1059)                      *)
(* keys: third_buy = 三买, second_buy = 二买, first_buy = 一买,              *)
(*   today_signal = 今天信号                                               *)
(* signals: "third_buy" = 三买, "second_buy" = 二买, "first_buy" = 一买,     *)
(*   "none" = 无                                                           *)
(***************************************************************************)
\* mutant of today_signal: the first buy is tested before the other two
today_signal_first_wins(third, second, first) ==
    IF first THEN "first_buy"
    ELSE IF second THEN "second_buy"
    ELSE IF third THEN "third_buy"
    ELSE "none"

\* lines 1051-1057
today_signal(third, second, first) ==
    IF third THEN "third_buy"
    ELSE IF second THEN "second_buy"
    ELSE IF first THEN "first_buy"
    ELSE "none"

\* lines 1044-1049: the three detectors are all evaluated; an exception of
\* check_today_first_buy (the only one that reads dif) leaves the function
analyze_today_buy_points(d, lookback) ==
    LET third == check_today_third_buy(d, lookback)
        second == check_today_second_buy(d, lookback)
        first == check_today_first_buy(d, lookback)
    IN IF IsError(first) THEN first
       ELSE [third_buy |-> third, second_buy |-> second, first_buy |-> first,
             today_signal |-> today_signal(third.today_third_buy, second.today_second_buy,
                                           first.today_first_buy)]

(***************************************************************************)
(* analyze_stock (analyze_buy_points.py 66-156)                            *)
(* keys: code = 股票代码, level = 级别, signal_type = 信号类型,              *)
(*   current_price = 当前价格, ZG = 中枢ZG, ZD = 中枢ZD,                     *)
(*   first_buy_price = 一买位置, second_buy_price = 二买位置,                *)
(*   rise_pct = 一买到二买涨幅, potential_pct = 二买潜在涨幅,                *)
(*   zs_strength = 中枢强度, composite = 综合评分,                          *)
(*   is_divergence = 是否底背驰, ma_cross = 均线金叉, score = 力度评分,      *)
(*   probability = 预估上涨概率, strength = 预估上涨力度, reasons = 原因     *)
(* signal types: "third_buy_point" = 第三买点, "second_buy_point" = 第二买点,*)
(*   "first_buy_point" = 第一买点; "yes" = 是, "no" = 否                    *)
(* Percentages are integers in hundredths of a percent.                    *)
(***************************************************************************)
\* data_fetcher_tushare.py 381-398: the stored bars of the level, or None for
\* a daily series of fewer than 50 bars; <<frame>> stands for a frame
get_kline_by_level(stored, level) ==
    IF level = "daily" /\ Len(stored) < 50 THEN None ELSE <<stored>>

\* round(k * num / den, 2) in hundredths, for num >= 0 and den > 0: the
\* nearest integer to 100 * k * num / den, ties to even
RoundRatio(k, num, den) ==
    LET q == (100 * k * num) \div den
        r == (100 * k * num) % den
    IN IF 2 * r > den \/ (2 * r = den /\ q % 2 = 1) THEN q + 1 ELSE q

\* round(x, 2) of a price held in tenths: the value is unchanged
Round2(x) == x

\* "; ".join(reasons)
JoinReasons(reasons) == [sep |-> "; ", parts |-> reasons]

\* lines 86-96
third_buy_record(level, current_price, third) ==
    [code |-> "code", level |-> level, signal_type |-> "third_buy_point",
     current_price |-> Round2(current_price),
     ZG |-> third.ZG, ZD |-> third.ZD,
     reasons |-> JoinReasons(third.reasons)]

\* lines 97-137: the second-buy record of the same-day detector has no range,
\* and its second-buy price is the current price
second_buy_record(level, current_price, second) ==
    LET one_buy == second.first_buy_price[1]
        two_buy == second.second_buy_price[1]
        rise_num == IF one_buy > 0 /\ two_buy # 0 THEN two_buy - one_buy ELSE 0
        rise_den == IF one_buy > 0 /\ two_buy # 0 THEN one_buy ELSE 1
    IN [code |-> "code", level |-> level, signal_type |-> "second_buy_point",
        current_price |-> Round2(current_price),
        first_buy_price |-> IF one_buy # 0 THEN <<Round2(one_buy)>> ELSE None,
        second_buy_price |-> IF two_buy # 0 THEN <<Round2(two_buy)>> ELSE None,
        ZG |-> None, ZD |-> None,
        rise_pct |-> RoundRatio(100, rise_num, rise_den),
        potential_pct |-> 0,
        zs_strength |-> 0,
        composite |-> RoundRatio(30, rise_num, rise_den),
        reasons |-> JoinReasons(second.reasons)]

\* lines 138-154: the strength fields come from calculate_divergence_strength
\* when the first buy is a divergence, and are the defaults otherwise
first_buy_record(level, current_price, first, div_strength) ==
    [code |-> "code", level |-> level, signal_type |-> "first_buy_point",
     current_price |-> Round2(current_price),
     first_buy_price |-> first.first_buy_price,
     is_divergence |-> IF first.is_divergence THEN "yes" ELSE "no",
     ma_cross |-> IF first.ma_cross THEN "yes" ELSE "no",
     score |-> IF div_strength = None THEN 0 ELSE div_strength[1].score,
     probability |-> IF div_strength = None THEN "" ELSE div_strength[1].probability,
     strength |-> IF div_strength = None THEN "" ELSE div_strength[1].strength,
     reasons |-> JoinReasons(first.reasons)]

\* lines 141-154: the first-buy record, or the exception that left
\* calculate_divergence_strength
first_buy_results(level, current_price, first, div_strength) ==
    IF IsError(div_strength) THEN div_strength
    ELSE [results |-> <<first_buy_record(level, current_price, first, <<div_strength>>)>>]

\* lines 80-154: the records that the analysis of one level adds (none, or
\* one), or the exception that left a detector
signal_results(level, d, analysis) ==
    IF IsError(analysis) THEN analysis
    ELSE IF analysis.today_signal = "third_buy"
    THEN [results |-> <<third_buy_record(level, d[Len(d)].close, analysis.third_buy)>>]
    ELSE IF analysis.today_signal = "second_buy"
    THEN [results |-> <<second_buy_record(level, d[Len(d)].close, analysis.second_buy)>>]
    ELSE IF analysis.today_signal = "first_buy"
    THEN IF analysis.first_buy.is_divergence
         THEN first_buy_results(level, d[Len(d)].close, analysis.first_buy,
                                calculate_divergence_strength(d))
         ELSE [results |-> <<first_buy_record(level, d[Len(d)].close,
                                              analysis.first_buy, None)>>]
    ELSE [results |-> <<>>]

\* lines 73-78: a level without a series, or with fewer than 30 bars, is skipped
frame_results(level, fetched) ==
    IF fetched = None THEN [results |-> <<>>]
    ELSE IF Len(fetched[1]) < 30 THEN [results |-> <<>>]
    ELSE signal_results(level, fetched[1], analyze_today_buy_points(fetched[1], 30))

analyze_level(stored, level) == frame_results(level, get_kline_by_level(stored, level))

\* lines 71-72, 156: the loop over the levels; after[k] is the list built by
\* the first k levels, or the exception that ended the loop
analyze_stock(stored, levels) ==
    LET after[k \in 0..Len(levels)] ==
            IF k = 0 THEN [results |-> <<>>]
            ELSE IF IsError(after[k - 1]) THEN after[k - 1]
            ELSE LET here == analyze_level(stored, levels[k])
                 IN IF IsError(here) THEN here
                    ELSE [results |-> after[k - 1].results \o here.results]
    IN after[Len(levels)]

(***************************************************************************)
(* The K-line store (kline_db.py).  The table kline (init_db, lines 50-65) *)
(* is a set of rows with the columns symbol, level, dt, open, high, low,   *)
(* close, volume, dif, dea, macd and the primary key (symbol, level, dt).  *)
(* A datetime is a number of minutes; the text dt that save_klines stores  *)
(* is the record [date, time] of its day and its <<minute of the day>>,    *)
(* the time being <<>> when the text ends after the day.  A REAL value of  *)
(* a frame or of the table is <<value>>, and NaN and NULL are <<>>; an     *)
(* optional argument or result is None or <<value>>.                       *)
(***************************************************************************)
\* strftime("%Y-%m-%d %H:%M:%S"): the day and the time of day, as text
strftime(t) == [date |-> t \div 1440, time |-> <<t % 1440>>]

\* str.replace(r" 00:00:00$", ""): a midnight time is cut off the text
strip_midnight(s) == IF s.time = <<0>> THEN [date |-> s.date, time |-> <<>>] ELSE s

\* line 123: the text dt of a value of the date column
dt_text(t) == strip_midnight(strftime(t))

\* pd.to_datetime(.., format="mixed") of a stored dt (line 108)
to_datetime(s) == s.date * 1440 + (IF s.time = <<>> THEN 0 ELSE s.time[1])

\* text comparison a < b of two dt: by the day, then a text that ends after
\* the day before a longer one, then by the time
dt_less(a, b) ==
    \/ a.date < b.date
    \/ /\ a.date = b.date
       /\ \/ a.time = <<>> /\ b.time # <<>>
          \/ a.time # <<>> /\ b.time # <<>> /\ a.time[1] < b.time[1]

\* the rows of one symbol and level
rows_of(table, symbol, level) == {r \in table : r.symbol = symbol /\ r.level = level}

\* mutant of insert_or_replace: the row is added whatever the table holds
insert_plain(table, row) == table \cup {row}

\* INSERT OR REPLACE under PRIMARY KEY (symbol, level, dt): the row takes the
\* place of a row with its key
insert_or_replace(table, row) ==
    {r \in table : ~(r.symbol = row.symbol /\ r.level = row.level /\ r.dt = row.dt)}
    \cup {row}

\* lines 124-127: dt from date, NULL for a missing dif / dea / macd column
row_to_store(f, k, symbol, level) ==
    [symbol |-> symbol, level |-> level, dt |-> dt_text(f[k].date),
     open |-> f[k].open, high |-> f[k].high, low |-> f[k].low, close |-> f[k].close,
     volume |-> f[k].volume,
     dif |-> IF "dif" \in DOMAIN f[k] THEN f[k].dif ELSE None,
     dea |-> IF "dea" \in DOMAIN f[k] THEN f[k].dea ELSE None,
     macd |-> IF "macd" \in DOMAIN f[k] THEN f[k].macd ELSE None]

\* dropna(subset=["open", "close"]) (line 127): the positions of f that stay
kept_rows(f) == {k \in 1..Len(f) : f[k].open # NaN /\ f[k].close # NaN}

\* executemany (lines 128-135): the rows of f from position k on are written
\* in the order of the frame
RECURSIVE write_rows(_, _, _, _, _)
write_rows(table, f, k, symbol, level) ==
    IF k > Len(f) THEN table
    ELSE write_rows(IF k \in kept_rows(f)
                    THEN insert_or_replace(table, row_to_store(f, k, symbol, level))
                    ELSE table,
                    f, k + 1, symbol, level)

\* save_klines (lines 113-138): the table afterwards and the returned count
save_klines(table, f, symbol, level) ==
    IF f = None \/ Len(f) = 0 THEN [table |-> table, count |-> 0]
    ELSE IF ~HasCol(f, "date") THEN [table |-> table, count |-> 0]
    ELSE [table |-> write_rows(table, f, 1, symbol, level),
          count |-> Cardinality(kept_rows(f))]

\* delete_klines (lines 141-148): the table afterwards and the row count
delete_klines(table, symbol, level, before_dt) ==
    LET gone == IF before_dt = None THEN rows_of(table, symbol, level)
                ELSE {r \in rows_of(table, symbol, level) : dt_less(r.dt, before_dt[1])}
    IN [table |-> table \ gone, count |-> Cardinality(gone)]

\* get_latest_dt (lines 68-77): ORDER BY dt DESC LIMIT 1
get_latest_dt(table, symbol, level) ==
    LET rows == rows_of(table, symbol, level)
    IN IF rows = {} THEN None
       ELSE <<(CHOOSE r \in rows : \A q \in rows : ~dt_less(r.dt, q.dt)).dt>>

\* ORDER BY dt ASC: the rows S as a sequence
RECURSIVE order_by_dt(_)
order_by_dt(S) ==
    IF S = {} THEN <<>>
    ELSE LET first == CHOOSE r \in S : \A q \in S : ~dt_less(q.dt, r.dt)
         IN <<first>> \o order_by_dt(S \ {first})

\* read_klines (lines 80-110): the rows of the symbol and level within
\* [min_dt, max_dt], ascending in dt, at most `limit` of them, with dt
\* renamed to date and parsed; an empty result has the columns only
read_klines(table, symbol, level, min_dt, max_dt, limit) ==
    LET rows == {r \in rows_of(table, symbol, level) :
                    /\ min_dt = None \/ ~dt_less(r.dt, min_dt[1])
                    /\ max_dt = None \/ ~dt_less(max_dt[1], r.dt)}
        sorted == order_by_dt(rows)
        found == IF limit = None THEN sorted ELSE SubSeq(sorted, 1, Min2(limit[1], Len(sorted)))
    IN [k \in 1..Len(found) |->
           [date |-> to_datetime(found[k].dt), open |-> found[k].open,
            high |-> found[k].high, low |-> found[k].low, close |-> found[k].close,
            volume |-> found[k].volume, dif |-> found[k].dif, dea |-> found[k].dea,
            macd |-> found[k].macd]]

(***************************************************************************)
(* Bars and series.                                                        *)
(***************************************************************************)
\* one row of the DataFrame: the columns the detectors read
\* (DEA 0, and the histogram 2 * (DIF - DEA) as calc_macd computes it)
Bar(h, l, c, dif) ==
    [high |-> h, low |-> l, close |-> c, dif |-> dif, dea |-> 0, macd |-> 2 * dif]

\* n copies of bar b
Rep(n, b) == [i \in 1..n |-> b]

\* every series over the bars B of a length in lo..hi
SeriesOver(B, lo, hi) == UNION {[1..n -> B] : n \in lo..hi}

NoCall == [fn |-> "none"]

\* no result is pending: the caller may make a call
Idle == call = NoCall

\* the caller has used the result of the last call; the series is untouched
Return ==
    /\ ~Idle
    /\ call' = NoCall
    /\ ret' = None
    /\ UNCHANGED <<df, kline>>

(***************************************************************************)
(* Consolidation-range family: short series over four bar shapes, and the  *)
(* 40-bar series of the documented example (segment highs 10, 9, 11 and    *)
(* lows 5, 6, 4, in tenths; the 16 older bars lie outside every segment).  *)
(***************************************************************************)
BarsZS == {Bar(20, 10, 10, 0), Bar(30, 10, 10, 0), Bar(30, 20, 20, 0), Bar(20, 20, 20, 0)}

Scenario1 ==
    Rep(16, Bar(200, 10, 100, 0)) \o
    Rep(7, Bar(90, 60, 70, 0)) \o <<Bar(100, 50, 70, 0)>> \o
    Rep(7, Bar(80, 70, 75, 0)) \o <<Bar(90, 60, 75, 0)>> \o
    <<Bar(110, 40, 80, 0)>> \o Rep(7, Bar(100, 50, 80, 0))

InputsZS == SeriesOver(BarsZS, 0, MaxLenZS) \cup {Scenario1}

SegmentBarsZS == {1, 2, 8}

LookbacksZS == {3, 6, 50}

InitZS == /\ df \in InputsZS
          /\ call = NoCall
          /\ ret = None
          /\ kline = {}

Call_find_zhongshu_simple(S, L) ==
    /\ Idle
    /\ call' = [fn |-> "find_zhongshu_simple", segment_bars |-> S, lookback |-> L]
    /\ ret' = find_zhongshu_simple(df, S, L)
    /\ UNCHANGED <<df, kline>>

NextZS ==
    \/ \E S \in SegmentBarsZS, L \in LookbacksZS : Call_find_zhongshu_simple(S, L)
    \/ Return

SpecZS == InitZS /\ [][NextZS]_vars

(***************************************************************************)
(* Breakout-pullback family: a consolidation of PadLenTB bars trading      *)
(* between 6.0 and 9.0, followed by up to MaxFreeTB bars whose close is    *)
(* below, on or above 9.0 and whose low is below or above 9.0.  A          *)
(* DataFrame is not validated by the detectors, so a bar whose low lies    *)
(* above its close is an input too.                                        *)
(***************************************************************************)
PadTB == Bar(90, 60, 80, 0)

BarsTB == {Bar(Max2(c, l), l, c, 0) : c \in {85, 90, 94, 95}, l \in {85, 92}}

InputsTB == {Rep(PadLenTB, PadTB) \o t : t \in SeriesOver(BarsTB, 0, MaxFreeTB)}

\* (break_bars, pullback_bars): the defaults of is_third_buy_simple, the
\* values every caller passes, and a pair asking for more bars than there are
BreakPullbackTB == {<<3, 10>>, <<5, 10>>, <<5, 40>>}

MarginsTB == {0 - 5, 0, 5}

\* (segment_bars, lookback): the defaults, the two pairs of the level filters
\* for a series of about 30 bars, and one-bar segments
SegmentLookbackTB == {<<6, 50>>, <<6, 30>>, <<5, 25>>, <<1, 30>>}

InitTB == /\ df \in InputsTB
          /\ call = NoCall
          /\ ret = None
          /\ kline = {}

Call_is_third_buy_simple(zd, zg, bp, m) ==
    /\ Idle
    /\ call' = [fn |-> "is_third_buy_simple", zd |-> zd, zg |-> zg,
                break_bars |-> bp[1], pullback_bars |-> bp[2],
                min_close_above_zg |-> m]
    /\ ret' = is_third_buy_simple(df, zd, zg, bp[1], bp[2], m)
    /\ UNCHANGED <<df, kline>>

Call_is_third_buy_with_reasons(zd, zg, bp) ==
    /\ Idle
    /\ call' = [fn |-> "_is_third_buy_with_reasons", zd |-> zd, zg |-> zg,
                break_bars |-> bp[1], pullback_bars |-> bp[2]]
    /\ ret' = is_third_buy_with_reasons(df, zd, zg, bp[1], bp[2])
    /\ UNCHANGED <<df, kline>>

Call_check_third_buy_detail(sl, bp) ==
    /\ Idle
    /\ call' = [fn |-> "check_third_buy_detail", segment_bars |-> sl[1],
                lookback |-> sl[2], break_bars |-> bp[1], pullback_bars |-> bp[2]]
    /\ ret' = check_third_buy_detail(df, sl[1], sl[2], bp[1], bp[2])
    /\ UNCHANGED <<df, kline>>

\* the caller passes the one frame it holds under every level it requests
Call_filter_levels_third_buy_on_frame(levels) ==
    /\ Idle
    /\ call' = [fn |-> "filter_levels_third_buy", levels |-> levels]
    /\ ret' = filter_levels_third_buy([l \in {"daily", "60"} |-> df], levels)
    /\ UNCHANGED <<df, kline>>

NextTB ==
    \/ \E bp \in BreakPullbackTB, m \in MarginsTB : Call_is_third_buy_simple(60, 90, bp, m)
    \/ \E bp \in BreakPullbackTB : Call_is_third_buy_with_reasons(60, 90, bp)
    \/ \E sl \in SegmentLookbackTB, bp \in BreakPullbackTB : Call_check_third_buy_detail(sl, bp)
    \/ \E levels \in {<<"daily">>, <<"60">>, <<"60", "daily">>} :
           Call_filter_levels_third_buy_on_frame(levels)
    \/ Return

SpecTB == InitTB /\ [][NextTB]_vars

(***************************************************************************)
(* Extrema family: every series of up to MaxLenEX bars over four bar       *)
(* shapes (two highs, two lows), scanned with windows shorter than, equal  *)
(* to and longer than the series.                                          *)
(***************************************************************************)
BarsEX == {Bar(h, l, l, l) : h \in {30, 40}, l \in {10, 20}}

InputsEX == SeriesOver(BarsEX, 0, MaxLenEX)

LookbacksEX == {2, 3, 4, 20, 60}

InitEX == /\ df \in InputsEX
          /\ call = NoCall
          /\ ret = None
          /\ kline = {}

Call_find_all_local_extrema(L) ==
    /\ Idle
    /\ call' = [fn |-> "find_all_local_extrema", lookback |-> L]
    /\ ret' = find_all_local_extrema(df, L)
    /\ UNCHANGED <<df, kline>>

Call_find_recent_lows(L) ==
    /\ Idle
    /\ call' = [fn |-> "find_recent_lows", lookback |-> L]
    /\ ret' = find_recent_lows(df, L)
    /\ UNCHANGED <<df, kline>>

NextEX ==
    \/ \E L \in LookbacksEX : Call_find_all_local_extrema(L)
    \/ \E L \in LookbacksEX : Call_find_recent_lows(L)
    \/ Return

SpecEX == InitEX /\ [][NextEX]_vars

(***************************************************************************)
(* Divergence family: a flat series (low 10.2, close 10.4, DIF 2.0) of 19, *)
(* 20, 30 or 50 bars in which up to MaxEditsDV of the eight bars before    *)
(* the last one dip to a low of 9.5 or 10.0 with DIF 2.0 or 3.5, and whose *)
(* last bar closes at 10.4 or 10.6 (the higher close lifts MA5 over MA10). *)
(***************************************************************************)
BaseDV == Bar(110, 102, 104, 20)

DipsDV == {Bar(110, l, 104, dif) : l \in {95, 100}, dif \in {20, 35}}

LastBarsDV == {Bar(110, 102, c, 20) : c \in {104, 106}}

LensDV == {19, 20, 30, 50}

\* the series of n bars with the last bar b and the dips e, a function from
\* 0-based positions of the window of the last 10 bars to bars
SeriesDV(n, e, b) ==
    [i \in 1..n |-> IF (i - (n - 9)) \in DOMAIN e THEN e[i - (n - 9)]
                    ELSE IF i = n THEN b ELSE BaseDV]

DipChoicesDV ==
    UNION {[P -> DipsDV] : P \in {Q \in SUBSET (1..8) : Cardinality(Q) <= MaxEditsDV}}

InputsDV == {SeriesDV(n, e, b) : n \in LensDV, e \in DipChoicesDV, b \in LastBarsDV}

(***************************************************************************)
(* The detectors that return a result record, called with the arguments    *)
(* their callers pass (the defaults), on the divergence family and on the  *)
(* breakout-pullback family.                                               *)
(***************************************************************************)
\* 30 bars stepping up (12 bars 6.0-7.0, 12 bars 8.0-9.0, 6 bars 10.0-11.0):
\* the three 6-bar segments of the last 20 bars do not overlap
SteppedSeries ==
    Rep(12, Bar(70, 60, 65, 0)) \o Rep(12, Bar(90, 80, 85, 0)) \o Rep(6, Bar(110, 100, 105, 0))

\* 20 bars whose last three MA5 values are 5.0, 5.0, 6.0 and whose last three
\* MA10 values are 7.0, 6.0, 6.0; highs and lows are flat (no local low)
Scenario4 ==
    LET closes == <<100, 100, 100, 100, 100, 100, 100, 100,
                    150, 100, 70, 70, 60, 50, 50, 50, 50, 50, 50, 100>>
    IN [i \in 1..20 |-> Bar(200, 40, closes[i], 0)]

InitDet == /\ df \in InputsDV \cup InputsTB \cup {SteppedSeries, Scenario4}
           /\ call = NoCall
           /\ ret = None
           /\ kline = {}

Call_check_bottom_divergence(L) ==
    /\ Idle
    /\ call' = [fn |-> "check_bottom_divergence", lookback |-> L]
    /\ ret' = check_bottom_divergence(df, L)
    /\ UNCHANGED <<df, kline>>

Call_calculate_divergence_strength ==
    /\ Idle
    /\ call' = [fn |-> "calculate_divergence_strength"]
    /\ ret' = calculate_divergence_strength(df)
    /\ UNCHANGED <<df, kline>>

Call_check_today_first_buy(L) ==
    /\ Idle
    /\ call' = [fn |-> "check_today_first_buy", lookback |-> L]
    /\ ret' = check_today_first_buy(df, L)
    /\ UNCHANGED <<df, kline>>

Call_check_today_second_buy(L) ==
    /\ Idle
    /\ call' = [fn |-> "check_today_second_buy", lookback |-> L]
    /\ ret' = check_today_second_buy(df, L)
    /\ UNCHANGED <<df, kline>>

Call_check_today_third_buy(L) ==
    /\ Idle
    /\ call' = [fn |-> "check_today_third_buy", lookback |-> L]
    /\ ret' = check_today_third_buy(df, L)
    /\ UNCHANGED <<df, kline>>

Call_check_second_buy_point(L) ==
    /\ Idle
    /\ call' = [fn |-> "check_second_buy_point", lookback |-> L]
    /\ ret' = check_second_buy_point(df, L)
    /\ UNCHANGED <<df, kline>>

Call_check_third_buy_from_first_buy(L) ==
    /\ Idle
    /\ call' = [fn |-> "check_third_buy_from_first_buy", lookback |-> L]
    /\ ret' = check_third_buy_from_first_buy(df, L)
    /\ UNCHANGED <<df, kline>>

Call_analyze_all_buy_points(L) ==
    /\ Idle
    /\ call' = [fn |-> "analyze_all_buy_points", lookback |-> L]
    /\ ret' = analyze_all_buy_points(df, L)
    /\ UNCHANGED <<df, kline>>

NextDet ==
    \/ Call_check_third_buy_detail(<<6, 50>>, <<5, 10>>)
    \/ Call_check_bottom_divergence(20)
    \/ Call_calculate_divergence_strength
    \/ Call_check_today_first_buy(30)
    \/ Call_check_today_second_buy(30)
    \/ Call_check_today_third_buy(30)
    \/ Call_check_second_buy_point(80)
    \/ Call_check_third_buy_from_first_buy(80)
    \/ Call_analyze_all_buy_points(80)
    \/ Return

SpecDet == InitDet /\ [][NextDet]_vars

(***************************************************************************)
(* Aggregation family: the divergence family, and consolidations of        *)
(* PadLenTB + 2 or PadLenTB + 22 bars, plain or with two early local lows  *)
(* at 5.0 and 5.5, followed by up to MaxFreeTB bars of the                 *)
(* breakout-pullback family; and one series that ends above the range on   *)
(* two local lows at 9.1.  The store holds the series under every level    *)
(* that is asked for.                                                      *)
(***************************************************************************)
PadWithLows(n) ==
    [i \in 1..n |-> IF i = 3 THEN Bar(90, 50, 80, 0)
                    ELSE IF i = 5 THEN Bar(90, 55, 80, 0)
                    ELSE PadTB]

PadsAG == {Rep(PadLenTB + 2, PadTB), PadWithLows(PadLenTB + 2),
           Rep(PadLenTB + 22, PadTB), PadWithLows(PadLenTB + 22)}

PullbackAboveRange ==
    Rep(PadLenTB + 2, PadTB) \o
    <<Bar(95, 92, 95, 0), Bar(95, 91, 95, 0), Bar(95, 92, 95, 0), Bar(95, 91, 95, 0),
      Bar(95, 92, 95, 0)>>

InputsAG ==
    InputsDV \cup {pad \o t : pad \in PadsAG, t \in SeriesOver(BarsTB, 0, MaxFreeTB)}
             \cup {PullbackAboveRange}

\* the default of analyze_stock, a minute level, both, and no level
LevelsAG == {<<"daily">>, <<"60">>, <<"daily", "60">>, <<>>}

InitAG == /\ df \in InputsAG
          /\ call = NoCall
          /\ ret = None
          /\ kline = {}

Call_analyze_today_buy_points(L) ==
    /\ Idle
    /\ call' = [fn |-> "analyze_today_buy_points", lookback |-> L]
    /\ ret' = analyze_today_buy_points(df, L)
    /\ UNCHANGED <<df, kline>>

Call_analyze_stock(levels) ==
    /\ Idle
    /\ call' = [fn |-> "analyze_stock", levels |-> levels]
    /\ ret' = analyze_stock(df, levels)
    /\ UNCHANGED <<df, kline>>

NextAG ==
    \/ Call_analyze_today_buy_points(30)
    \/ \E levels \in LevelsAG : Call_analyze_stock(levels)
    \/ Return

SpecAG == InitAG /\ [][NextAG]_vars

(***************************************************************************)
(* Scorer family: a flat series of 30 or 31 bars in which up to            *)
(* MaxEditsDV of three bars of the last ten dip to a low of 0, 9.5 or 10.0 *)
(* with DIF 0, 2.0 or 3.5, and whose last bar carries each sign pattern of *)
(* (DIF - DEA, DEA, MACD); and the same series without the dif, dea and    *)
(* macd columns.                                                           *)
(***************************************************************************)
DipsSC == {Bar(110, l, 104, dif) : l \in {0, 95, 100}, dif \in {0, 20, 35}}

LastBarsSC ==
    {[high |-> 110, low |-> 102, close |-> 104, dif |-> dif, dea |-> dea, macd |-> macd] :
        dif \in {0 - 10, 20}, dea \in {0 - 5, 25}, macd \in {0 - 4, 4}}

DipChoicesSC ==
    UNION {[P -> DipsSC] : P \in {Q \in SUBSET {2, 5, 7} : Cardinality(Q) <= MaxEditsDV}}

\* the series without its oscillator columns
WithoutMacd(s) == [i \in 1..Len(s) |-> [high |-> s[i].high, low |-> s[i].low,
                                        close |-> s[i].close]]

SeriesSC == {SeriesDV(n, e, b) : n \in {30, 31}, e \in DipChoicesSC, b \in LastBarsSC}

InputsSC == SeriesSC \cup {WithoutMacd(s) : s \in SeriesSC}

InitSC == /\ df \in InputsSC
          /\ call = NoCall
          /\ ret = None
          /\ kline = {}

NextSC ==
    \/ Call_check_bottom_divergence(20)
    \/ Call_calculate_divergence_strength
    \/ Call_check_today_first_buy(30)
    \/ Return

SpecSC == InitSC /\ [][NextSC]_vars

(***************************************************************************)
(* Moving-average family: frames as read_klines returns them (kline_db.py  *)
(* 80-110: date, open, high, low, close, volume, dif, dea, macd), 7 flat   *)
(* bars closing at 2.0 followed by 6 to MaxFreeMA bars closing at 1.0, 2.0 *)
(* or 3.0; the volume of a bar is ten times its close and the dates are    *)
(* consecutive.                                                            *)
(***************************************************************************)
StoredBar(i, c) ==
    [date |-> 20240100 + i, open |-> c, high |-> c + 5, low |-> c - 5, close |-> c,
     volume |-> 10 * c, dif |-> 0, dea |-> 0, macd |-> 0]

ClosesMA == {10, 20, 30}

InputsMA ==
    {[i \in 1..(7 + Len(t)) |-> StoredBar(i, IF i <= 7 THEN 20 ELSE t[i - 7])] :
        t \in SeriesOver(ClosesMA, 6, MaxFreeMA)}

\* (ma1, ma2): the defaults, a shorter slow window, and the windows exchanged
WindowsMA == {<<5, 10>>, <<5, 9>>, <<10, 5>>}

InitMA == /\ df \in InputsMA
          /\ call = NoCall
          /\ ret = None
          /\ kline = {}

Call_check_ma_cross(ma1, ma2) ==
    /\ Idle
    /\ call' = [fn |-> "check_ma_cross", ma1 |-> ma1, ma2 |-> ma2]
    /\ ret' = check_ma_cross(df, ma1, ma2)
    /\ df' = frame_after_check_ma_cross(df, ma1, ma2)
    /\ UNCHANGED kline

Call_check_volume_increase(days) ==
    /\ Idle
    /\ call' = [fn |-> "check_volume_increase", days |-> days]
    /\ ret' = check_volume_increase(df, days)
    /\ df' = frame_after_check_volume_increase(df, days)
    /\ UNCHANGED kline

NextMA ==
    \/ \E w \in WindowsMA : Call_check_ma_cross(w[1], w[2])
    \/ Call_check_volume_increase(5)
    \/ Return

SpecMA == InitMA /\ [][NextMA]_vars

(***************************************************************************)
(* Level-filter family: here df is the kline_by_level dict of main.py      *)
(* (lines 151-153), with the keys daily and 60.  A frame is None or the    *)
(* consolidation of the breakout-pullback family followed by up to         *)
(* MaxFreeTB bars: a breakout bar, a bar that stays above 9.0 and closes   *)
(* on it, or a bar back inside the range.                                  *)
(***************************************************************************)
BarsFL == {Bar(95, 92, 95, 0), Bar(92, 92, 90, 0), Bar(85, 85, 85, 0)}

FramesFL == {None} \cup {Rep(PadLenTB, PadTB) \o t : t \in SeriesOver(BarsFL, 0, MaxFreeTB)}

InputsFL == [{"daily", "60"} -> FramesFL]

\* the requested levels: up to two of daily, 60 and 30 (30 is not a key)
LevelListsFL == SeriesOver({"daily", "60", "30"}, 0, 2)

InitFL == /\ df \in InputsFL
          /\ call = NoCall
          /\ ret = None
          /\ kline = {}

Call_filter_levels_third_buy(levels) ==
    /\ Idle
    /\ call' = [fn |-> "filter_levels_third_buy", levels |-> levels]
    /\ ret' = filter_levels_third_buy(df, levels)
    /\ UNCHANGED <<df, kline>>

Call_filter_levels_third_buy_with_detail(levels) ==
    /\ Idle
    /\ call' = [fn |-> "filter_levels_third_buy_with_detail", levels |-> levels]
    /\ ret' = filter_levels_third_buy_with_detail(df, levels)
    /\ UNCHANGED <<df, kline>>

NextFL ==
    \/ \E levels \in LevelListsFL : Call_filter_levels_third_buy(levels)
    \/ \E levels \in LevelListsFL : Call_filter_levels_third_buy_with_detail(levels)
    \/ Return

SpecFL == InitFL /\ [][NextFL]_vars

(***************************************************************************)
(* Frame family: one caller-owned frame with the columns of read_klines,   *)
(* PadLenTB flat bars followed by 2 to MaxFreeTB bars closing at 1.0, 2.0  *)
(* or 3.0, on which the caller calls the detectors one after another with  *)
(* the arguments of their callers.                                         *)
(***************************************************************************)
InputsFR ==
    {[i \in 1..(PadLenTB + Len(t)) |->
         StoredBar(i, IF i <= PadLenTB THEN 20 ELSE t[i - PadLenTB])] :
        t \in SeriesOver(ClosesMA, 2, MaxFreeTB)}

InitFR == /\ df \in InputsFR
          /\ call = NoCall
          /\ ret = None
          /\ kline = {}

NextFR ==
    \/ \E sl \in {<<6, 30>>, <<5, 25>>} : Call_find_zhongshu_simple(sl[1], sl[2])
    \/ Call_is_third_buy_simple(15, 25, <<5, 10>>, 0)
    \/ Call_check_third_buy_detail(<<6, 30>>, <<5, 10>>)
    \/ Call_check_bottom_divergence(20)
    \/ Call_calculate_divergence_strength
    \/ Call_check_ma_cross(5, 10)
    \/ Call_check_volume_increase(5)
    \/ Call_check_today_first_buy(30)
    \/ Call_check_today_second_buy(30)
    \/ Call_check_today_third_buy(30)
    \/ Return

SpecFR == InitFR /\ [][NextFR]_vars

(***************************************************************************)
(* Store family: the table starts empty (init_db) and the caller saves,    *)
(* deletes and reads the bars of one symbol at the levels daily and 60.    *)
(* A saved frame has up to MaxRowsDB rows dated on day 1 at midnight, day  *)
(* 1 at 09:30 or day 2 at midnight, closing at 1.0 or 1.1, or a row with   *)
(* no open price; two more frames have no MACD columns and no date column. *)
(***************************************************************************)
FetchedBar(t, c) ==
    [date |-> t, open |-> <<c>>, high |-> <<c>>, low |-> <<c>>, close |-> <<c>>,
     volume |-> <<100>>, dif |-> <<0>>, dea |-> <<0>>, macd |-> <<0>>]

DatetimesDB == {1440, 1440 + 570, 2 * 1440}

RowsDB ==
    {FetchedBar(t, c) : t \in DatetimesDB, c \in {10, 11}}
    \cup {[FetchedBar(2 * 1440, 10) EXCEPT !.open = NaN]}

FramesDB ==
    SeriesOver(RowsDB, 0, MaxRowsDB)
    \cup {<<[date |-> 1440, open |-> <<10>>, high |-> <<10>>, low |-> <<10>>,
             close |-> <<10>>, volume |-> <<100>>]>>,
          <<[open |-> <<10>>, high |-> <<10>>, low |-> <<10>>, close |-> <<10>>,
             volume |-> <<100>>]>>}

LevelsDB == {"daily", "60"}

\* an optional dt argument: None or the text of one of the datetimes
OptionalDtDB == {None} \cup {<<dt_text(t)>> : t \in DatetimesDB}

InitDB == /\ df = None
          /\ call = NoCall
          /\ ret = None
          /\ kline = {}

\* CREATE TABLE IF NOT EXISTS leaves an existing table as it is
Call_init_db ==
    /\ Idle
    /\ call' = [fn |-> "init_db"]
    /\ ret' = None
    /\ UNCHANGED <<df, kline>>

Call_save_klines(f, level) ==
    /\ Idle
    /\ call' = [fn |-> "save_klines", frame |-> f, symbol |-> "000001", level |-> level]
    /\ ret' = save_klines(kline, f, "000001", level).count
    /\ kline' = save_klines(kline, f, "000001", level).table
    /\ UNCHANGED df

Call_delete_klines(level, before_dt) ==
    /\ Idle
    /\ call' = [fn |-> "delete_klines", symbol |-> "000001", level |-> level,
                before_dt |-> before_dt]
    /\ ret' = delete_klines(kline, "000001", level, before_dt).count
    /\ kline' = delete_klines(kline, "000001", level, before_dt).table
    /\ UNCHANGED df

Call_read_klines(level, min_dt, limit) ==
    /\ Idle
    /\ call' = [fn |-> "read_klines", symbol |-> "000001", level |-> level,
                min_dt |-> min_dt, max_dt |-> None, limit |-> limit]
    /\ ret' = read_klines(kline, "000001", level, min_dt, None, limit)
    /\ UNCHANGED <<df, kline>>

Call_get_latest_dt(level) ==
    /\ Idle
    /\ call' = [fn |-> "get_latest_dt", symbol |-> "000001", level |-> level]
    /\ ret' = get_latest_dt(kline, "000001", level)
    /\ UNCHANGED <<df, kline>>

NextDB ==
    \/ Call_init_db
    \/ \E f \in FramesDB, level \in LevelsDB : Call_save_klines(f, level)
    \/ \E level \in LevelsDB, before_dt \in OptionalDtDB : Call_delete_klines(level, before_dt)
    \/ \E level \in LevelsDB, min_dt \in {None, <<dt_text(1440 + 570)>>}, limit \in {None, <<1>>} :
           Call_read_klines(level, min_dt, limit)
    \/ \E level \in LevelsDB : Call_get_latest_dt(level)
    \/ Return

SpecDB == InitDB /\ [][NextDB]_vars

(***************************************************************************)
(* Claims about find_zhongshu_simple.  The segments are described here by  *)
(* the positions of df they cover, independently of the slicing above.     *)
(***************************************************************************)
\* number of bars left after truncating df to its most recent L bars
Remaining(L) == IF L < Len(df) THEN L ELSE Len(df)

\* positions of df in segment k (1 oldest, 2 middle, 3 newest) of length S
Segment(k, S) == {i \in 1..Len(df) : /\ i > Len(df) - (4 - k) * S
                                      /\ i <= Len(df) - (3 - k) * S}

SegmentHigh(k, S) == CHOOSE x \in {df[i].high : i \in Segment(k, S)} :
                         \A i \in Segment(k, S) : df[i].high <= x

SegmentLow(k, S) == CHOOSE x \in {df[i].low : i \in Segment(k, S)} :
                        \A i \in Segment(k, S) : x <= df[i].low

\* the least of the three segment highs
LeastHigh(S) == CHOOSE x \in {SegmentHigh(k, S) : k \in 1..3} :
                    \A k \in 1..3 : x <= SegmentHigh(k, S)

\* the greatest of the three segment lows
GreatestLow(S) == CHOOSE x \in {SegmentLow(k, S) : k \in 1..3} :
                      \A k \in 1..3 : SegmentLow(k, S) <= x

\* C4: a range returned by find_zhongshu_simple has ZG > ZD strictly, and when
\* the three segment extremes do not overlap (least segment high <= greatest
\* segment low) the result is None, for every segment length >= 1 and lookback.
C4_RangeIsStrict ==
    call.fn = "find_zhongshu_simple" =>
        /\ ret # None => ret[2] > ret[1]
        /\ (/\ Remaining(call.lookback) >= 3 * call.segment_bars
            /\ LeastHigh(call.segment_bars) <= GreatestLow(call.segment_bars))
           => ret = None

\* C4 witness: three segments whose extremes just touch, and no range came back
C4_Witness ==
    /\ call.fn = "find_zhongshu_simple"
    /\ Remaining(call.lookback) >= 3 * call.segment_bars
    /\ LeastHigh(call.segment_bars) = GreatestLow(call.segment_bars)
    /\ ret = None

\* C5: find_zhongshu_simple(df, S, L) returns None when fewer than 3*S bars
\* remain after truncating to the most recent L bars; otherwise, whenever the
\* least high of the three abutting S-bar segments exceeds their greatest low,
\* it returns (ZD, ZG) = (greatest segment low, least segment high).  The
\* documented 40-bar example with S = 8 gives ZD = 6, ZG = 9.
C5_RangeFromSegments ==
    call.fn = "find_zhongshu_simple" =>
        /\ Remaining(call.lookback) < 3 * call.segment_bars => ret = None
        /\ (/\ Remaining(call.lookback) >= 3 * call.segment_bars
            /\ LeastHigh(call.segment_bars) > GreatestLow(call.segment_bars))
           => ret = <<GreatestLow(call.segment_bars), LeastHigh(call.segment_bars)>>
        /\ (df = Scenario1 /\ call.segment_bars = 8 /\ call.lookback = 50)
           => ret = <<60, 90>>

\* C5 witness: the documented example was evaluated and gave (6, 9)
C5_Witness ==
    /\ call.fn = "find_zhongshu_simple"
    /\ df = Scenario1
    /\ call.segment_bars = 8
    /\ call.lookback = 50
    /\ ret = <<60, 90>>

(***************************************************************************)
(* Claims about the breakout-pullback validators.                          *)
(***************************************************************************)
\* the documented scenario for a range with ZG = 9.0: closes rise to a close
\* of 9.5, every later bar has its low at or above 9.2, the final close is 9.4
Scenario2 ==
    \E k \in 1..(Len(df) - 1) :
        /\ df[k].close = 95
        /\ \A i \in 1..(k - 1) : df[i].close <= df[i + 1].close
        /\ \A j \in (k + 1)..Len(df) : df[j].low >= 92
        /\ df[Len(df)].close = 94

\* C1: on the documented scenario (ZG = 9.0, breakout close 9.5, later lows
\* >= 9.2, final close 9.4) is_third_buy_simple returns True and
\* _is_third_buy_with_reasons / check_third_buy_detail report success with an
\* empty reason list.
C1_ScenarioAccepted ==
    Scenario2 =>
        /\ (/\ call.fn = "is_third_buy_simple"
            /\ Len(df) >= call.break_bars + call.pullback_bars
            /\ call.min_close_above_zg <= 0)
           => ret = TRUE
        /\ (/\ call.fn = "_is_third_buy_with_reasons"
            /\ Len(df) >= call.break_bars + call.pullback_bars + 2)
           => /\ ret.broke_zg /\ ret.pullback_above_zg /\ ret.close_on_zg
              /\ ret.reasons = <<>>
        /\ (/\ call.fn = "check_third_buy_detail"
            /\ Len(df) >= call.break_bars + call.pullback_bars + 2
            /\ ret.ZG = <<90>>)
           => ret.conclusion /\ ret.reasons = <<>>

\* C9: in check_third_buy_detail the conclusion is True exactly when a range
\* exists and the three flags are True, and exactly when the reason list is
\* empty (so every negative result carries a reason); when a breakout was found
\* and both the pullback and the final-close condition fail, the two reasons
\* are reported, pullback first.
C9_ConclusionAndReasons ==
    call.fn = "check_third_buy_detail" =>
        /\ ret.conclusion <=> (/\ ret.zs_exists /\ ret.broke_zg
                               /\ ret.pullback_above_zg /\ ret.close_on_zg)
        /\ ret.conclusion <=> (ret.reasons = <<>>)
        /\ Len(df) < 30 => ret.reasons = <<Reason("fewer_than_30_bars")>>
        /\ (ret.broke_zg /\ ~ret.pullback_above_zg /\ ~ret.close_on_zg)
           => /\ Len(ret.reasons) = 2
              /\ ret.reasons[1].text = "pullback_low_le_zg"
              /\ ret.reasons[2].text = "close_below_zg"

\* C9 witness: a breakout whose pullback re-entered the range and whose final
\* close is below ZG, reported with both reasons
C9_Witness ==
    /\ call.fn = "check_third_buy_detail"
    /\ ret.broke_zg /\ ~ret.pullback_above_zg /\ ~ret.close_on_zg
    /\ Len(ret.reasons) = 2

\* C10: for fixed bars, range and widths, if is_third_buy_simple returns False
\* with margin m it returns False with every margin m' >= m.
C10_MarginMonotonic ==
    (call.fn = "is_third_buy_simple" /\ ret = FALSE) =>
        \A m \in MarginsTB :
            m >= call.min_close_above_zg =>
                ~is_third_buy_simple(df, call.zd, call.zg, call.break_bars,
                                     call.pullback_bars, m)

\* C10 witness: a call that failed only because of its margin (a smaller
\* margin passes on the same bars)
C10_Witness ==
    /\ call.fn = "is_third_buy_simple"
    /\ ret = FALSE
    /\ \E m \in MarginsTB :
           /\ m < call.min_close_above_zg
           /\ is_third_buy_simple(df, call.zd, call.zg, call.break_bars,
                                  call.pullback_bars, m)

(***************************************************************************)
(* Claims about the extrema finders.  WindowBar(L, i) is the bar at the    *)
(* 0-based position i of the window of the most recent L bars of df.       *)
(***************************************************************************)
WindowBar(L, i) == df[Len(df) - Remaining(L) + i + 1]

\* window positions that have both neighbours inside the window
Interior(L) == 1..(Remaining(L) - 2)

StrictHighs(L) == {i \in Interior(L) : /\ WindowBar(L, i).high > WindowBar(L, i - 1).high
                                       /\ WindowBar(L, i).high > WindowBar(L, i + 1).high}

StrictLows(L) == {i \in Interior(L) : /\ WindowBar(L, i).low < WindowBar(L, i - 1).low
                                      /\ WindowBar(L, i).low < WindowBar(L, i + 1).low}

\* C6: the positions find_all_local_extrema reports as highs (lows) are exactly
\* the window positions strictly above (below) both neighbours, each reported
\* once with its own price; find_recent_lows reports exactly the strict lows;
\* the first and last position are never reported and a window of fewer than 3
\* bars yields nothing.
C6_ExtremaAreStrict ==
    /\ call.fn = "find_all_local_extrema" =>
           /\ {ret.highs[k].idx : k \in 1..Len(ret.highs)} = StrictHighs(call.lookback)
           /\ {ret.lows[k].idx : k \in 1..Len(ret.lows)} = StrictLows(call.lookback)
           /\ Len(ret.highs) = Cardinality(StrictHighs(call.lookback))
           /\ Len(ret.lows) = Cardinality(StrictLows(call.lookback))
           /\ \A k \in 1..Len(ret.highs) :
                  ret.highs[k].price = WindowBar(call.lookback, ret.highs[k].idx).high
           /\ \A k \in 1..Len(ret.lows) :
                  ret.lows[k].price = WindowBar(call.lookback, ret.lows[k].idx).low
           /\ \A k \in 1..Len(ret.highs) :
                  ret.highs[k].idx \notin {0, Remaining(call.lookback) - 1}
           /\ \A k \in 1..Len(ret.lows) :
                  ret.lows[k].idx \notin {0, Remaining(call.lookback) - 1}
           /\ Remaining(call.lookback) < 3 => ret.highs = <<>> /\ ret.lows = <<>>
    /\ call.fn = "find_recent_lows" =>
           /\ {ret[k][1] : k \in 1..Len(ret)} = StrictLows(call.lookback)
           /\ Len(ret) = Cardinality(StrictLows(call.lookback))
           /\ \A k \in 1..Len(ret) : ret[k][2] = WindowBar(call.lookback, ret[k][1]).low
           /\ Remaining(call.lookback) < 3 => ret = <<>>

\* C6 witness: a window with a local high and a local low, both reported, next
\* to a bar that ties with its neighbour and is not
C6_Witness ==
    /\ call.fn = "find_all_local_extrema"
    /\ Len(ret.highs) >= 1
    /\ Len(ret.lows) >= 1
    /\ \E i \in Interior(call.lookback) :
           /\ WindowBar(call.lookback, i).low < WindowBar(call.lookback, i - 1).low
           /\ WindowBar(call.lookback, i).low = WindowBar(call.lookback, i + 1).low
           /\ \A k \in 1..Len(ret.lows) : ret.lows[k].idx # i

(***************************************************************************)
(* Claims about the divergence detectors and the result records.           *)
(***************************************************************************)
\* a is a lowest-priced strict local low of the window of L bars and b a
\* lowest-priced one among the others
LowestPair(L, a, b) ==
    /\ a \in StrictLows(L)
    /\ b \in StrictLows(L) \ {a}
    /\ \A c \in StrictLows(L) : WindowBar(L, a).low <= WindowBar(L, c).low
    /\ \A c \in StrictLows(L) \ {a} : WindowBar(L, b).low <= WindowBar(L, c).low

\* 'current' a makes a lower price and a higher DIF than 'previous' b
Diverges(L, a, b) ==
    /\ WindowBar(L, a).low < WindowBar(L, b).low
    /\ WindowBar(L, a).dif > WindowBar(L, b).dif

\* C2: for a series of at least 30 bars with at least two local lows in its
\* last `lookback` bars, check_bottom_divergence reports divergence exactly when
\* the lowest-priced local low has a lower price and a higher DIF than the
\* second-lowest-priced one (so lows 10.0 / DIF 2.0 and 9.5 / DIF 3.5 give
\* divergence), and then with an empty reason list.
C2_DivergenceOfLowestPair ==
    (/\ call.fn = "check_bottom_divergence"
     /\ Len(df) >= 30
     /\ Cardinality(StrictLows(call.lookback)) >= 2)
    => /\ ret.exists <=> \E a, b \in StrictLows(call.lookback) :
                             LowestPair(call.lookback, a, b) /\ Diverges(call.lookback, a, b)
       /\ ret.exists => ret.reasons = <<>>

\* C3: for a series of at least 50 bars check_second_buy_point,
\* check_third_buy_from_first_buy and analyze_all_buy_points return a result
\* record and never end in an exception.
C3_DetectorsAreTotal ==
    (/\ call.fn \in {"check_second_buy_point", "check_third_buy_from_first_buy",
                     "analyze_all_buy_points"}
     /\ Len(df) >= 50)
    => ~IsError(ret)

\* C7: on a series of at least 20 bars check_today_first_buy signals exactly
\* when a same-day golden cross holds or the lowest-priced local low of the
\* 10-bar trailing window lies within the 3 most recent bars of that window
\* and diverges from the second-lowest one; a diverging low among the oldest
\* bars of the window does not signal.
C7_TodayFirstBuy ==
    (call.fn = "check_today_first_buy" /\ Len(df) >= 20)
    => (ret.today_first_buy <=>
            \/ golden_cross_today(df)
            \/ \E a, b \in StrictLows(10) :
                   /\ LowestPair(10, a, b)
                   /\ a >= Remaining(10) - 3
                   /\ Diverges(10, a, b))

ReasonDetectors == {"check_third_buy_detail", "check_bottom_divergence",
                    "calculate_divergence_strength"}

TodayDetectors == {"check_today_first_buy", "check_today_second_buy",
                   "check_today_third_buy"}

\* the outcome flag of the result of a detector that returns a reasons list
Positive ==
    CASE call.fn = "check_third_buy_detail" -> ret.conclusion
      [] call.fn = "check_bottom_divergence" -> ret.exists
      [] call.fn = "calculate_divergence_strength" -> ret.has_divergence
      [] call.fn = "check_today_first_buy" -> ret.today_first_buy
      [] call.fn = "check_today_second_buy" -> ret.today_second_buy
      [] call.fn = "check_today_third_buy" -> ret.today_third_buy

LastCloses(n) == {df[i].close : i \in {j \in 1..Len(df) : j > Len(df) - n}}

\* C11: on a series of at least 30 bars check_today_third_buy signals exactly
\* when the three 6-bar segments at the end of the series give a valid range
\* (least segment high above greatest segment low), the last close is above
\* ZG, the last low is above ZG and one of the last 5 closes is above ZG; no
\* earlier breakout bar is looked for, so it signals where the historical
\* validator is_third_buy_simple rejects the same series and range.
C11_TodayThirdBuy ==
    (call.fn = "check_today_third_buy" /\ Len(df) >= 30)
    => /\ ret.today_third_buy <=>
              /\ LeastHigh(6) > GreatestLow(6)
              /\ df[Len(df)].close > LeastHigh(6)
              /\ df[Len(df)].low > LeastHigh(6)
              /\ \E c \in LastCloses(5) : c > LeastHigh(6)
       /\ ret.today_third_buy =>
              /\ ret.ZG = <<LeastHigh(6)>>
              /\ ret.ZD = <<GreatestLow(6)>>

\* C11 witness: a same-day third buy on a series that the historical validator
\* rejects for the same range
C11_Witness ==
    /\ call.fn = "check_today_third_buy"
    /\ ret.today_third_buy
    /\ ~is_third_buy_simple(df, ret.ZD[1], ret.ZG[1], 3, 10, 0)
\* the proxy first-buy level: the least price among the local lows of the
\* window of L bars (defined when the window has a local low)
ProxyFirstBuy(L) == CHOOSE x \in {WindowBar(L, i).low : i \in StrictLows(L)} :
                        \A i \in StrictLows(L) : x <= WindowBar(L, i).low

\* C12: on a series of at least 20 bars check_today_second_buy signals exactly
\* when the window has at least one local low and, with P the least price
\* among its local lows, either P < last close <= 1.05 * P, or a same-day
\* golden cross holds and the last close is above P.
C12_TodaySecondBuy ==
    (call.fn = "check_today_second_buy" /\ Len(df) >= 20)
    => (ret.today_second_buy <=>
            /\ StrictLows(call.lookback) # {}
            /\ LET P == ProxyFirstBuy(call.lookback)
                   close == df[Len(df)].close
               IN \/ P < close /\ 20 * (close - P) <= P
                  \/ golden_cross_today(df) /\ close > P)
\* the sum of the w closes of df that end at position j (1-based)
CloseSum(j, w) == SumRange(ColClose(df), j - w + 1, j)

\* MA5 <= MA10 at the bar before the last, and MA5 > MA10 at the last bar
\* (2 * sum of 5 closes against the sum of 10 closes)
CrossedToday ==
    /\ 2 * CloseSum(Len(df) - 1, 5) <= CloseSum(Len(df) - 1, 10)
    /\ 2 * CloseSum(Len(df), 5) > CloseSum(Len(df), 10)

\* C13: on a series of at least 20 bars check_today_first_buy registers a
\* golden cross (均线金叉) exactly when MA5 <= MA10 at bar[-2] and MA5 > MA10 at
\* bar[-1], and check_today_second_buy signals by its golden-cross path only
\* then; with MA5 = 5, 5, 6 and MA10 = 7, 6, 6 on the last three bars no cross
\* is registered.
C13_SameDayCross ==
    /\ (call.fn = "check_today_first_buy" /\ Len(df) >= 20)
       => /\ ret.ma_cross <=> CrossedToday
          /\ ret.ma_cross => ret.today_first_buy
          /\ df = Scenario4 => ~ret.ma_cross /\ ~ret.today_first_buy
    /\ (/\ call.fn = "check_today_second_buy"
        /\ ret.today_second_buy
        /\ ret.reasons[1].text = "ma_cross_above_first_buy")
       => CrossedToday

\* C13 witness: the example was evaluated; yesterday MA5 = 5 <= MA10 = 6 and
\* today MA5 = MA10 = 6
C13_Witness ==
    /\ call.fn = "check_today_first_buy"
    /\ df = Scenario4
    /\ 2 * CloseSum(18, 5) = 2 * 250 /\ CloseSum(18, 10) = 700
    /\ 2 * CloseSum(19, 5) = 2 * 250 /\ CloseSum(19, 10) = 600
    /\ 2 * CloseSum(20, 5) = 2 * 300 /\ CloseSum(20, 10) = 600
    /\ ~ret.ma_cross

(***************************************************************************)
(* Claims about the aggregation of the same-day signals.                   *)
(***************************************************************************)
\* the type of record that analyze_stock reports for a same-day signal
SignalType(signal) ==
    CASE signal = "third_buy" -> "third_buy_point"
      [] signal = "second_buy" -> "second_buy_point"
      [] signal = "first_buy" -> "first_buy_point"

\* the level is analysed: its series exists and has at least 30 bars
Analysed(level) == Len(df) >= 30 /\ (level = "daily" => Len(df) >= 50)

\* the positions of the returned list that hold a record of the level
RecordsOf(level) == {k \in 1..Len(ret.results) : ret.results[k].level = level}

\* C14: 今天信号 of analyze_today_buy_points is '三买' whenever the same-day
\* third buy triggers, else '二买' whenever the second buy triggers, else '一买'
\* whenever the first buy triggers, else '无'; and analyze_stock returns at
\* most one record per level, of the type of the highest-priority signal that
\* triggers on the level's series, and none when no signal triggers or the
\* level is not analysed.
C14_StrictPrecedence ==
    /\ (call.fn = "analyze_today_buy_points" /\ ~IsError(ret))
       => LET third == ret.third_buy.today_third_buy
              second == ret.second_buy.today_second_buy
              first == ret.first_buy.today_first_buy
          IN /\ third => ret.today_signal = "third_buy"
             /\ (~third /\ second) => ret.today_signal = "second_buy"
             /\ (~third /\ ~second /\ first) => ret.today_signal = "first_buy"
             /\ (~third /\ ~second /\ ~first) => ret.today_signal = "none"
    /\ (call.fn = "analyze_stock" /\ ~IsError(ret))
       => LET third == check_today_third_buy(df, 30).today_third_buy
              second == check_today_second_buy(df, 30).today_second_buy
              first == check_today_first_buy(df, 30).today_first_buy
              highest == IF third THEN "third_buy"
                         ELSE IF second THEN "second_buy" ELSE "first_buy"
          IN /\ \A k \in 1..Len(ret.results) :
                    /\ \E j \in 1..Len(call.levels) : call.levels[j] = ret.results[k].level
                    /\ ret.results[k].signal_type = SignalType(highest)
             /\ \A j \in 1..Len(call.levels) :
                    Cardinality(RecordsOf(call.levels[j])) =
                        IF Analysed(call.levels[j]) /\ (third \/ second \/ first)
                        THEN 1 ELSE 0

\* C14 witness: two levels were analysed on a series where the third buy and
\* the second buy both trigger, and each level got one third-buy record
C14_Witness ==
    /\ call.fn = "analyze_stock"
    /\ call.levels = <<"daily", "60">>
    /\ check_today_second_buy(df, 30).today_second_buy
    /\ Len(ret.results) = 2
    /\ ret.results[1].signal_type = "third_buy_point"
    /\ ret.results[2].signal_type = "third_buy_point"

(***************************************************************************)
(* Claims about missing columns and about the strength scorer.             *)
(***************************************************************************)
\* C15: for a series of at least 30 bars without the dif and dea columns,
\* check_bottom_divergence, calculate_divergence_strength and
\* check_today_first_buy return a negative result whose reasons report the
\* missing data, and never end in an exception, also when the window
\* contains local lows.
C15_MissingColumnsReported ==
    (/\ call.fn \in {"check_bottom_divergence", "calculate_divergence_strength",
                     "check_today_first_buy"}
     /\ Len(df) >= 30
     /\ ~HasCol(df, "dif")
     /\ ~HasCol(df, "dea"))
    => /\ ~IsError(ret)
       /\ ~Positive
       /\ ret.reasons = <<Reason("no_macd_data")>>

\* the lows that calculate_divergence_strength examines: the local lows of
\* the last 20 bars, in the order of find_recent_lows
StrengthLows == find_recent_lows(Tail_(df, 30), 20)

\* the low that calculate_divergence_strength takes as the previous one
PrevLow == StrengthLows[Len(StrengthLows) - 1]

\* C16: when the previous low has price exactly 0 or DIF exactly 0,
\* calculate_divergence_strength still returns a result record (no division
\* fault), and the sub-score computed from the zero baseline is 0.
C16_ZeroBaseline ==
    (/\ call.fn = "calculate_divergence_strength"
     /\ Len(df) >= 30
     /\ HasCol(df, "dif")
     /\ Len(StrengthLows) >= 2
     /\ (PrevLow[2] = 0 \/ PrevLow[3] = 0))
    => /\ ~IsError(ret)
       /\ PrevLow[2] = 0 => ret.price_score = 0
       /\ PrevLow[3] = 0 => ret.div_score = 0

\* C16 witness: the previous low is priced 0 with DIF 0, the other low lies
\* above it, and a record came back
C16_Witness ==
    /\ call.fn = "calculate_divergence_strength"
    /\ Len(df) >= 30
    /\ HasCol(df, "dif")
    /\ Len(StrengthLows) >= 2
    /\ PrevLow[2] = 0
    /\ PrevLow[3] = 0
    /\ StrengthLows[Len(StrengthLows)][2] > 0
    /\ ~IsError(ret)
    /\ ret.reasons = <<Reason("no_divergence")>>

\* C17: whenever calculate_divergence_strength reports a divergence, 力度评分
\* is the sum of the price-drop score (0..30), the divergence score (0..40)
\* and the oscillator-state score (5, 15, 20 or 30), hence within 0..100; on
\* every negative result the score is 0.
C17_ScoreIsBoundedSum ==
    (call.fn = "calculate_divergence_strength" /\ ~IsError(ret))
    => /\ ret.has_divergence =>
              /\ ret.score = ret.price_score + ret.div_score + ret.macd_score
              /\ ret.price_score \in 0..30
              /\ ret.div_score \in 0..40
              /\ ret.macd_score \in {5, 15, 20, 30}
              /\ ret.score \in 0..100
       /\ ~ret.has_divergence => ret.score = 0

\* C17 witness: two local lows were compared, no divergence was found and the
\* score is 0
C17_Witness ==
    /\ call.fn = "calculate_divergence_strength"
    /\ ~IsError(ret)
    /\ HasCol(df, "dif")
    /\ Len(StrengthLows) >= 2
    /\ StrengthLows[Len(StrengthLows)][3] > PrevLow[3]
    /\ ~ret.has_divergence
    /\ ret.score = 0

\* the labels are the bands of the returned score
LabelsFollowScore ==
    /\ ret.probability = "very_high" <=> ret.score >= 80
    /\ ret.probability = "high" <=> (ret.score >= 60 /\ ret.score < 80)
    /\ ret.probability = "medium" <=> (ret.score >= 40 /\ ret.score < 60)
    /\ ret.probability = "low" <=> ret.score < 40
    /\ ret.strength = "strong" <=> ret.score >= 70
    /\ ret.strength = "medium" <=> (ret.score >= 50 /\ ret.score < 70)
    /\ ret.strength = "weak" <=> ret.score < 50

\* C18 as stated: for every result that calculate_divergence_strength returns,
\* the probability band is 'very high' iff score >= 80, 'high' iff
\* 60 <= score < 80, 'medium' iff 40 <= score < 60, otherwise 'low', and the
\* strength label is 'strong' iff score >= 70, 'medium' iff 50 <= score < 70,
\* otherwise 'weak'.
C18_LabelsOfEveryResult ==
    (call.fn = "calculate_divergence_strength" /\ ~IsError(ret)) => LabelsFollowScore

\* C18 amended: the labels are those bands of the score on every result that
\* reports a divergence; on every negative result the score is 0 and both
\* labels are the empty string.
C18_LabelsOfPositiveResults ==
    (call.fn = "calculate_divergence_strength" /\ ~IsError(ret))
    => /\ ret.has_divergence => LabelsFollowScore
       /\ ~ret.has_divergence =>
              /\ ret.score = 0
              /\ ret.probability = ""
              /\ ret.strength = ""

\* C18 witness: a series with fewer than two local lows got a negative result
\* with empty labels
C18_Witness ==
    /\ call.fn = "calculate_divergence_strength"
    /\ ~IsError(ret)
    /\ ~ret.has_divergence
    /\ ret.reasons = <<Reason("not_enough_lows")>>
    /\ ret.probability = ""
    /\ ret.strength = ""

\* the oscillator-state score that the last bar of df calls for
LastBarStateScore ==
    LET last == df[Len(df)]
    IN IF last.dea < 0 /\ last.dif > last.dea THEN 30
       ELSE IF last.dif > last.dea /\ last.macd > 0 THEN 20
       ELSE IF last.macd > 0 THEN 15
       ELSE 5

\* the lowest-priced local low of the last L bars diverges from the
\* second-lowest-priced one
ConfirmedDivergence(L) ==
    \E a, b \in StrictLows(L) : LowestPair(L, a, b) /\ Diverges(L, a, b)

\* C19: for a series with a confirmed bottom divergence the oscillator-state
\* sub-score of calculate_divergence_strength is fixed by the last bar alone:
\* 30 when dea < 0 and dif > dea, otherwise 20 when dif > dea and macd > 0,
\* otherwise 15 when macd > 0, otherwise 5.
C19_StateScoreOfLastBar ==
    (/\ call.fn = "calculate_divergence_strength"
     /\ Len(df) >= 30
     /\ HasCol(df, "dif")
     /\ ConfirmedDivergence(20))
    => /\ ~IsError(ret)
       /\ ret.macd_score = LastBarStateScore

\* C20: for every series of at least 30 bars carrying dif/dea,
\* calculate_divergence_strength(df) reports a divergence exactly when
\* check_bottom_divergence(df, 20) does, and the two agree on whether the
\* trailing 20 bars hold two local lows to compare.
C20_SameDivergenceRule ==
    (/\ call.fn = "calculate_divergence_strength"
     /\ Len(df) >= 30
     /\ HasCol(df, "dif"))
    => /\ ~IsError(ret)
       /\ ret.has_divergence = check_bottom_divergence(df, 20).exists
       /\ ret.reasons = <<Reason("not_enough_lows")>>
              <=> check_bottom_divergence(df, 20).reasons = <<Reason("not_enough_lows")>>
       /\ ret.reasons = <<Reason("no_divergence")>>
              <=> check_bottom_divergence(df, 20).reasons \in
                      {<<Reason("price_not_new_low")>>, <<Reason("dif_also_new_low")>>}

\* C20 witness: both functions compared two lows of equal price, the later
\* one with the higher DIF, and neither reports a divergence
C20_Witness ==
    /\ call.fn = "calculate_divergence_strength"
    /\ Len(df) >= 30
    /\ HasCol(df, "dif")
    /\ Len(StrengthLows) >= 2
    /\ StrengthLows[Len(StrengthLows)][2] = PrevLow[2]
    /\ StrengthLows[Len(StrengthLows)][3] > PrevLow[3]
    /\ ~ret.has_divergence
    /\ ~check_bottom_divergence(df, 20).exists

\* C21: when check_bottom_divergence finds at least two local lows of which
\* the lowest-priced does not diverge from the second-lowest-priced, it gives
\* exactly one reason: 'DIF也创新低，无背驰' when the lowest low is priced
\* strictly below the second-lowest one but its DIF is not greater, and
\* '价格未创新低' when it is not priced strictly below.
C21_ReasonNamesCause ==
    (/\ call.fn = "check_bottom_divergence"
     /\ Len(df) >= 30
     /\ HasCol(df, "dif")
     /\ Cardinality(StrictLows(call.lookback)) >= 2
     /\ ~ConfirmedDivergence(call.lookback))
    => /\ ~ret.exists
       /\ Len(ret.reasons) = 1
       /\ \A a, b \in StrictLows(call.lookback) :
              LowestPair(call.lookback, a, b)
              => ret.reasons[1].text =
                     IF WindowBar(call.lookback, a).low < WindowBar(call.lookback, b).low
                     THEN "dif_also_new_low" ELSE "price_not_new_low"

\* C22: the divergence predicate is antisymmetric: for any two local lows A
\* and B of the examined bars, when comparing current = A with previous = B
\* yields divergence (A is priced lower and has the higher DIF), comparing
\* current = B with previous = A does not.
C22_Antisymmetric ==
    (/\ call.fn = "calculate_divergence_strength"
     /\ Len(df) >= 30
     /\ HasCol(df, "dif"))
    => \A i, j \in 1..Len(StrengthLows) :
           LET A == StrengthLows[i]
               B == StrengthLows[j]
           IN strength_has_divergence(A[2], B[2], A[3], B[3])
              => ~strength_has_divergence(B[2], A[2], B[3], A[3])

\* C22 witness: two local lows of the examined bars of which one, taken as
\* current, diverges from the other
C22_Witness ==
    /\ call.fn = "calculate_divergence_strength"
    /\ Len(df) >= 30
    /\ HasCol(df, "dif")
    /\ \E i, j \in 1..Len(StrengthLows) :
           /\ strength_has_divergence(StrengthLows[i][2], StrengthLows[j][2],
                                      StrengthLows[i][3], StrengthLows[j][3])
           /\ ~strength_has_divergence(StrengthLows[j][2], StrengthLows[i][2],
                                       StrengthLows[j][3], StrengthLows[i][3])

(***************************************************************************)
(* Claims about check_ma_cross.  The averages are compared through the     *)
(* sums of the closes: fast > slow iff ma2 * (sum of ma1 closes) >         *)
(* ma1 * (sum of ma2 closes).                                              *)
(***************************************************************************)
\* both averages are defined at the 0-based bar i
BothDefined(i, ma1, ma2) == i + 1 >= ma1 /\ i + 1 >= ma2

\* the fast average is strictly above the slow one at the 0-based bar i
FastAbove(i, ma1, ma2) ==
    /\ BothDefined(i, ma1, ma2)
    /\ ma2 * CloseSum(i + 1, ma1) > ma1 * CloseSum(i + 1, ma2)

\* the 0-based bars up to the second-to-last one at which both averages are
\* defined and the fast one is not above the slow one
NotAboveBars(ma1, ma2) ==
    {i \in 0..(Len(df) - 2) : BothDefined(i, ma1, ma2) /\ ~FastAbove(i, ma1, ma2)}

\* the greatest element of a non-empty set of integers
Greatest(S) == CHOOSE x \in S : \A y \in S : y <= x

\* C23: on a series of at least ma2 + 5 bars check_ma_cross reports 金叉
\* exactly when the fast average is strictly above the slow one at the last
\* bar; 金叉日期 is then the date of the latest bar i <= n - 2 at which both
\* averages are defined and fast <= slow (the fast average is above the slow
\* one on every later bar), or None when there is no such bar; on a shorter
\* series every field keeps its default.
C23_GoldenCross ==
    call.fn = "check_ma_cross"
    => LET ma1 == call.ma1
           ma2 == call.ma2
           n == Len(df)
           S == NotAboveBars(ma1, ma2)
       IN IF n >= ma2 + 5
          THEN /\ ret.golden_cross <=> FastAbove(n - 1, ma1, ma2)
               /\ ret.golden_cross
                  => IF S = {} THEN ret.cross_date = None
                     ELSE /\ ret.cross_date = <<df[Greatest(S) + 1].date>>
                          /\ \A j \in (Greatest(S) + 1)..(n - 1) : FastAbove(j, ma1, ma2)
          ELSE ret = [golden_cross |-> FALSE, death_cross |-> FALSE, ma1 |-> None,
                      ma2 |-> None, cross_date |-> None]

\* C23 witness: a cross whose date lies before the second-to-last bar, at a
\* bar where the two averages are equal
C23_Witness ==
    /\ call.fn = "check_ma_cross"
    /\ Len(df) >= call.ma2 + 5
    /\ ret.golden_cross
    /\ NotAboveBars(call.ma1, call.ma2) # {}
    /\ LET i == Greatest(NotAboveBars(call.ma1, call.ma2))
       IN /\ i < Len(df) - 2
          /\ call.ma2 * CloseSum(i + 1, call.ma1) = call.ma1 * CloseSum(i + 1, call.ma2)
          /\ ret.cross_date = <<df[i + 1].date>>

(***************************************************************************)
(* Claims about the level filters.                                         *)
(***************************************************************************)
\* the level has a frame of at least 30 bars in the dict df
HasEnoughBars(level) ==
    /\ level \in DOMAIN df
    /\ df[level] # None
    /\ Len(df[level]) >= 30

\* frames put in the place of another level's frame
OtherFramesFL == {None, Rep(30, PadTB), Rep(30, PadTB) \o <<Bar(95, 92, 95, 0), Bar(92, 92, 90, 0)>>}

\* the dicts that differ from df in the frame of one level other than `level`
ChangedElsewhere(level) ==
    {[df EXCEPT ![l] = f] : l \in DOMAIN df \ {level}, f \in OtherFramesFL}

\* one entry per requested level, in the requested order
OneEntryPerLevel ==
    /\ Len(ret) = Len(call.levels)
    /\ \A k \in 1..Len(ret) : ret[k][1] = call.levels[k]

\* an entry is the same whatever the frames of the other levels are
EntriesAreIndependent ==
    \A k \in 1..Len(ret) :
        \A m \in ChangedElsewhere(call.levels[k]) :
            filter_levels_third_buy_with_detail(m, call.levels)[k] = ret[k]

\* a level without a frame of at least 30 bars is reported as not passed,
\* with a reason
ShortLevelsAreReported ==
    \A k \in 1..Len(ret) :
        ~HasEnoughBars(call.levels[k])
        => /\ ret[k][3] = FALSE
           /\ Len(ret[k][2].reasons) >= 1

\* C24 as stated: filter_levels_third_buy_with_detail returns one (level,
\* detail, passed) entry per requested level, in the requested order; an
\* entry depends only on its level's series; a level with no series or fewer
\* than 30 bars yields passed = False with a reason; and passed equals the
\* 结论 of the detail, for every entry.
C24_PassedIsConclusionOfEveryEntry ==
    call.fn = "filter_levels_third_buy_with_detail"
    => /\ OneEntryPerLevel
       /\ EntriesAreIndependent
       /\ ShortLevelsAreReported
       /\ \A k \in 1..Len(ret) :
              /\ "conclusion" \in DOMAIN ret[k][2]
              /\ ret[k][3] = ret[k][2].conclusion

\* C24, amended: as above, but passed equals the 结论 of the detail for the
\* levels that have a series of at least 30 bars; the detail of a level with
\* no series or fewer than 30 bars holds only 原因 and has no 结论.
C24_PassedIsConclusion ==
    call.fn = "filter_levels_third_buy_with_detail"
    => /\ OneEntryPerLevel
       /\ EntriesAreIndependent
       /\ ShortLevelsAreReported
       /\ \A k \in 1..Len(ret) :
              IF HasEnoughBars(call.levels[k])
              THEN /\ "conclusion" \in DOMAIN ret[k][2]
                   /\ ret[k][3] = ret[k][2].conclusion
              ELSE DOMAIN ret[k][2] = {"reasons"}

\* C24 witness: two levels were requested, the first without enough bars and
\* the second passing
C24_Witness ==
    /\ call.fn = "filter_levels_third_buy_with_detail"
    /\ Len(call.levels) = 2
    /\ Len(ret) = 2
    /\ ~HasEnoughBars(call.levels[1])
    /\ ret[1][3] = FALSE
    /\ HasEnoughBars(call.levels[2])
    /\ ret[2][3] = TRUE
    /\ ret[2][2].conclusion

(***************************************************************************)
(* Claims about the effect of the detectors on the caller's frame.         *)
(***************************************************************************)
\* no row of the frame d has a moving-average or volume-average column
NoAverageColumns(d) ==
    \A i \in 1..Len(d) : DOMAIN d[i] \cap {"ma5", "ma10", "ma20", "ma60", "vol_ma5"} = {}

\* the result of the call c made alone on the frame d
ResultAlone(c, d) ==
    CASE c.fn = "find_zhongshu_simple" -> find_zhongshu_simple(d, c.segment_bars, c.lookback)
      [] c.fn = "is_third_buy_simple" ->
             is_third_buy_simple(d, c.zd, c.zg, c.break_bars, c.pullback_bars,
                                 c.min_close_above_zg)
      [] c.fn = "check_third_buy_detail" ->
             check_third_buy_detail(d, c.segment_bars, c.lookback, c.break_bars,
                                    c.pullback_bars)
      [] c.fn = "check_bottom_divergence" -> check_bottom_divergence(d, c.lookback)
      [] c.fn = "calculate_divergence_strength" -> calculate_divergence_strength(d)
      [] c.fn = "check_ma_cross" -> check_ma_cross(d, c.ma1, c.ma2)
      [] c.fn = "check_volume_increase" -> check_volume_increase(d, c.days)
      [] c.fn = "check_today_first_buy" -> check_today_first_buy(d, c.lookback)
      [] c.fn = "check_today_second_buy" -> check_today_second_buy(d, c.lookback)
      [] c.fn = "check_today_third_buy" -> check_today_third_buy(d, c.lookback)

LowsBelowCloses == \A i \in 1..Len(df) : df[i].low <= df[i].close

ComparedLows ==
    IF call.fn = "calculate_divergence_strength" THEN StrengthLows
    ELSE find_recent_lows(df, call.lookback)

RECURSIVE PassedLevels(_)
PassedLevels(entries) ==
    IF entries = <<>> THEN <<>>
    ELSE (IF Head(entries)[3] THEN <<Head(entries)[1]>> ELSE <<>>)
         \o PassedLevels(Tail(entries))

\* C28: for every kline_by_level dict and list of levels,
\* filter_levels_third_buy returns the levels whose entry in
\* filter_levels_third_buy_with_detail has passed = True, in the same order.
C28_FiltersAgree ==
    /\ call.fn = "filter_levels_third_buy"
       => ret = PassedLevels(filter_levels_third_buy_with_detail(df, call.levels))
    /\ call.fn = "filter_levels_third_buy_with_detail"
       => PassedLevels(ret) = filter_levels_third_buy(df, call.levels)

\* C28 witness: of two requested levels the boolean filter returned the
\* second only, whose breakout bar is followed by a bar that stays above ZG
C28_Witness ==
    /\ call.fn = "filter_levels_third_buy"
    /\ Len(call.levels) = 2
    /\ HasEnoughBars(call.levels[1])
    /\ HasEnoughBars(call.levels[2])
    /\ ret = <<call.levels[2]>>
    /\ filter_levels_third_buy_with_detail(df, call.levels)[1][3] = FALSE
    /\ filter_levels_third_buy_with_detail(df, call.levels)[2][3] = TRUE

(***************************************************************************)
(* Claims about the breakout test of check_today_third_buy.                *)
(***************************************************************************)
\* C29: in check_today_third_buy the test that some close of the last 5 bars
\* is above ZG follows from the last close being above ZG: 今天三买 is True
\* exactly when a range was found and the last bar's close and low are both
\* above its ZG, and the reason '最近5天无突破ZG' is never produced.
C29_BreakoutTestIsImplied ==
    call.fn = "check_today_third_buy"
    => /\ ret.today_third_buy <=> /\ ret.ZG # None
                                  /\ df[Len(df)].close > ret.ZG[1]
                                  /\ df[Len(df)].low > ret.ZG[1]
       /\ \A k \in 1..Len(ret.reasons) : ret.reasons[k].text # "no_breakout_in_5_days"

\* C29 witness: a same-day third buy in which the last bar is the only one
\* of the last 5 that closes above ZG
C29_Witness ==
    /\ call.fn = "check_today_third_buy"
    /\ ret.today_third_buy
    /\ df[Len(df)].close > ret.ZG[1]
    /\ \A i \in (Len(df) - 4)..(Len(df) - 1) : df[i].close <= ret.ZG[1]

(***************************************************************************)
(* Claims about the K-line store.                                          *)
(***************************************************************************)
\* the stored rows of the symbol and level of the pending call
StoredRows == {r \in kline : r.symbol = call.symbol /\ r.level = call.level}

\* no two rows of the table have the same symbol, level and dt
OneRowPerKey ==
    \A r, q \in kline : (r.symbol = q.symbol /\ r.level = q.level /\ r.dt = q.dt) => r = q

\* the positions of the saved frame that have both prices
SavedPositions ==
    IF Len(call.frame) > 0 /\ "date" \in DOMAIN call.frame[1]
    THEN {k \in 1..Len(call.frame) : call.frame[k].open # NaN /\ call.frame[k].close # NaN}
    ELSE {}

\* the last saved position of the frame with the date of position k
LastWithDate(k) ==
    CHOOSE j \in SavedPositions :
        /\ call.frame[j].date = call.frame[k].date
        /\ \A i \in SavedPositions : call.frame[i].date = call.frame[k].date => i <= j

\* C30: the store keeps at most one row per (symbol, level, dt): after any
\* sequence of save_klines and delete_klines calls read_klines(symbol, level)
\* returns the stored rows in strictly ascending dt, without a duplicate;
\* saving a bar whose (symbol, level, dt) exists replaces the stored values,
\* so saving a frame twice leaves the state that saving it once leaves; and
\* get_latest_dt returns the greatest stored dt of the symbol and level, or
\* None when there is none.
C30_OneRowPerKey ==
    /\ OneRowPerKey
    /\ (call.fn = "read_klines" /\ call.min_dt = None /\ call.limit = None)
       => /\ \A k \in 1..(Len(ret) - 1) : ret[k].date < ret[k + 1].date
          /\ {ret[k].date : k \in 1..Len(ret)} = {to_datetime(r.dt) : r \in StoredRows}
          /\ Len(ret) = Cardinality(StoredRows)
    /\ call.fn = "save_klines"
       => /\ ret = Cardinality(SavedPositions)
          /\ \A k \in SavedPositions :
                 \E r \in StoredRows :
                     /\ to_datetime(r.dt) = call.frame[k].date
                     /\ r.close = call.frame[LastWithDate(k)].close
          /\ save_klines(kline, call.frame, call.symbol, call.level).table = kline
    /\ call.fn = "get_latest_dt"
       => IF StoredRows = {} THEN ret = None
          ELSE /\ ret # None
               /\ \E r \in StoredRows : r.dt = ret[1]
               /\ \A r \in StoredRows : to_datetime(r.dt) <= to_datetime(ret[1])

\* C30 witness: a frame with two bars of one date and different closes was
\* saved; both were written and the store holds the second one only
C30_Witness ==
    /\ call.fn = "save_klines"
    /\ Len(call.frame) = 2
    /\ ret = 2
    /\ call.frame[1].date = call.frame[2].date
    /\ call.frame[1].close # call.frame[2].close
    /\ Cardinality({r \in StoredRows : to_datetime(r.dt) = call.frame[1].date}) = 1
    /\ \A r \in StoredRows :
           to_datetime(r.dt) = call.frame[1].date => r.close = call.frame[2].close

====
